---- MODULE Spec2Model ----
(***************************************************************************)
(* DNA match graph analysis of dev-familytree: the triangulation pipeline  *)
(* of scripts/find_unknown_father_matches.py, the graph builders of        *)
(* dna_clustering.py and scripts/cluster_matches.py, the shared-match      *)
(* store of scripts/import_shared_matches.py, the breadth-first grouping   *)
(* of scripts/generate_cluster_matrix.py and the clique finder of          *)
(* dna_clustering.py.                                                      *)
(*                                                                         *)
(* Each program is a batch run; it is modelled as a state machine whose    *)
(* initial state holds the database rows it reads and whose actions are    *)
(* the steps of the run.  SpecTri is the triangulation pipeline, SpecGraph *)
(* the shared-match writers and the two graph builders, SpecAnalysis the   *)
(* analyses run on a built graph and the cluster matrix, SpecComm the      *)
(* community detection of scripts/cluster_matches.py and dna_clustering.py,*)
(* SpecMigrate scripts/migrate_to_ancestry_graph.py and SpecGrouping the   *)
(* two breadth-first groupings under fairness; the variables a program     *)
(* does not use stay as Init left them.                                    *)
(***************************************************************************)
EXTENDS Integers, Sequences, FiniteSets, TLC

\* ------------------------------------------------------------------ bounds
\* Number of dna_match rows (match ids 1..NumMatches).
NumMatches == 3
\* Largest number of shared_match rows drawn when the rows vary freely.
MaxRows == 3

\* SQL NULL / Python None, in a text column and in a numeric column.
NULL == "NULL"
NullInt == 0 - 1

Ids == 1..NumMatches

\* ------------------------------------------------------------- sequences
Range(s) == {s[i] : i \in DOMAIN s}

RECURSIVE SetToSeq(_)
\* The elements of a finite set of integers in ascending order.
SetToSeq(S) ==
    IF S = {} THEN <<>>
    ELSE LET m == CHOOSE x \in S : \A y \in S : x <= y
         IN <<m>> \o SetToSeq(S \ {m})

\* ------------------------------------------------------------- variables
VARIABLES
    pc,                  \* position of the running program
    \* --- scripts/find_unknown_father_matches.py
    dna_match,           \* table dna_match: id -> [cm, side, tree_id]
    shared_match,        \* table shared_match: rows <<match1_id, match2_id, cm>>
    min_group_size,      \* --min-group
    target_matches,      \* dict match_id -> match data
    triangulation_edges, \* rows (m1, m2, cm) between two target matches
    keys,                \* target_matches.keys() not yet iterated
    visited, groups, component, queue,   \* locals of build_triangulation_groups
    todo,                \* sorted(groups) not yet analysed, with their index i
    unknown_father_groups, known_paternal_groups,
    known_maternal_groups, mixed_groups,
    \* --- scripts/import_shared_matches.py
    submitted,           \* history: every (match1_id, match2_id, cm) handed to
                         \* save_shared_matches so far
    nsaved,              \* history: how many entries have been handed over
    \* --- dna_clustering.py and scripts/cluster_matches.py
    ancestry_person,     \* table ancestry_person: the ancestry_id values
    ancestry_match,      \* table ancestry_match: rows <<person1_id, person2_id, cm>>
    graph_min_cm,        \* --min-cm of dna_clustering.py
    people,              \* people / matches: the node list of the builder
    edges,               \* fetched edge rows not yet added to G
    G,                   \* the networkx graph: [nodes, edges]
    \* --- dna_clustering.py after build_graph
    min_size,            \* --min-size
    max_cliques,         \* max_cliques of find_cliques
    components,          \* list(nx.connected_components(G))
    components_sorted,   \* sorted(components, key=len, reverse=True)
    clique_iter,         \* what nx.find_cliques(G) has still to yield
    cliques,             \* the list find_cliques builds
    cliques_sorted,      \* the list print_cliques shows
    \* --- scripts/generate_cluster_matrix.py (visited and queue as above)
    matches,             \* the ids of the rows of get_cluster_matches, in order
    shared,              \* get_shared_matches: id -> ids it shares DNA with
    mids,                \* match_ids not yet iterated
    cluster, clusters,   \* locals of cluster_matches_by_shared
    result,              \* what cluster_matches_by_shared returns
    \* --- community detection: dna_clustering.py and scripts/cluster_matches.py
    node_order,          \* the nodes of G in the order G yields them: the
                         \* order of the rows of the node query, settled
                         \* when G is first iterated
    communities,         \* the list find_communities returns
    partition,           \* detect_communities: the items <<node, community id>>
    results,             \* the list analyze_clusters returns
    saving,              \* save_clusters_to_db: the results not yet written
    new_cluster_id,      \* cursor.lastrowid of the last INSERT
    to_tag,              \* r['members'] not yet updated
    conn,                \* tables cluster and dna_match.cluster_id as the
                         \* open connection sees them
    db,                  \* the same as committed to genealogy.db
    \* --- scripts/migrate_to_ancestry_graph.py
    pg_dna_match,        \* PostgreSQL dna_match: rows [ancestry_id, shared_cm,
                         \* matched_to_person_id]
    id_to_ancestry,      \* SQLite dna_match.id -> ancestry_id
    name_to_ancestry,    \* name -> ancestry_id
    missing_people       \* name -> synthetic ancestry_id

triVars == <<dna_match, shared_match, min_group_size, target_matches,
             triangulation_edges, keys, visited, groups, component, queue, todo,
             unknown_father_groups, known_paternal_groups,
             known_maternal_groups, mixed_groups>>

graphVars == <<submitted, nsaved, ancestry_person, ancestry_match, graph_min_cm,
               people, edges, G>>

anaVars == <<min_size, max_cliques, components, components_sorted, clique_iter,
             cliques, cliques_sorted>>

mtxVars == <<matches, shared, mids, cluster, clusters, result>>

commVars == <<node_order, communities, partition, results, saving, new_cluster_id, to_tag,
              conn, db>>

migVars == <<pg_dna_match, id_to_ancestry, name_to_ancestry, missing_people>>

\* What find_unknown_father_matches.py does not touch.
notTri == <<graphVars, anaVars, mtxVars, commVars, migVars>>

vars == <<pc, triVars, graphVars, anaVars, mtxVars, commVars, migVars>>

\* ======================================================================
\* scripts/find_unknown_father_matches.py
\* ======================================================================

\* A surname is the sequence of the words of the name that follow its first
\* space; the known surnames are one word long.
KNOWN_PATERNAL_SURNAMES ==
    { <<"Wrathall">>, <<"Wraithall">>, <<"Rathall">>, <<"Metcalfe">>, <<"Saul">>,
      <<"Worthington">>, <<"Horrocks">>, <<"Yates">>, <<"Lightfoot">>, <<"Copland">> }

KNOWN_MATERNAL_SURNAMES ==
    { <<"Tart">>, <<"Heywood">>, <<"Brown">>, <<"Virgo">>,
      <<"Frame">>, <<"Gessler">>, <<"Ganley">> }

\* Defaults of find_unknown_father_candidates.
min_cm == 20
max_cm == 100
min_shared == 15

\* The rows of tables person/tree: the names of the people of each linked
\* tree, a name being the sequence of its space-separated words.  T0 is a
\* linked_tree_id with no row in table tree.
TreeIds == {"T0", "T1", "T2", "T3", "T4", "T5"}
PersonNames(tree_id) ==
    CASE tree_id = "T1" -> { <<"john", "smith">> }
      [] tree_id = "T2" -> { <<"ann", "saul">>, <<"Smith">> }
      [] tree_id = "T3" -> { <<"mary", "TART">> }
      [] tree_id = "T4" -> { <<"ann", "saul">>, <<"tart">>, <<"john", "smith">> }
      [] tree_id = "T5" -> { <<"mary", "alice", "metcalfe">> }
      [] OTHER -> {}

\* str.title() on one word of the vocabulary of PersonNames.
TitleWord(w) ==
    CASE w \in {"smith", "Smith"} -> "Smith"
      [] w \in {"saul"} -> "Saul"
      [] w \in {"tart", "TART"} -> "Tart"
      [] w \in {"alice"} -> "Alice"
      [] w \in {"metcalfe"} -> "Metcalfe"
      [] w \in {"john"} -> "John"
      [] w \in {"ann"} -> "Ann"
      [] w \in {"mary"} -> "Mary"
      [] OTHER -> w

\* CASE WHEN name LIKE '% %' THEN SUBSTR(name, INSTR(name, ' ') + 1) ELSE name,
\* then .strip().title().
SurnameOf(name) ==
    LET raw == IF Len(name) > 1 THEN Tail(name) ELSE name
    IN [i \in DOMAIN raw |-> TitleWord(raw[i])]

SurnamesInTree(tree_id) ==
    IF tree_id = NULL THEN {} ELSE {SurnameOf(n) : n \in PersonNames(tree_id)}

\* WHERE clause of the first query of get_triangulation_data.
IsTarget(id) ==
    /\ dna_match[id].cm # NullInt
    /\ dna_match[id].cm >= min_cm
    /\ dna_match[id].cm <= max_cm
    /\ dna_match[id].side \in {"paternal", "both"}
    /\ \E r \in shared_match : r[1] = id

\* The rows the second query returns, kept when both ends are target matches.
TriangulationRows(targets) ==
    { r \in shared_match :
        /\ r[1] \in targets
        /\ r[2] \in targets
        /\ r[3] # NullInt
        /\ r[3] >= min_shared }

GetTriangulationData ==
    /\ pc = "get_triangulation_data"
    /\ LET targets == {id \in Ids : IsTarget(id)}
       IN /\ target_matches' =
                [id \in targets |->
                    [cm |-> dna_match[id].cm,
                     side |-> dna_match[id].side,
                     tree_id |-> dna_match[id].tree_id,
                     surnames_in_tree |-> SurnamesInTree(dna_match[id].tree_id),
                     classification |-> "NONE"]]
          /\ triangulation_edges' = TriangulationRows(targets)
    /\ pc' = "classify_matches"
    /\ UNCHANGED <<dna_match, shared_match, min_group_size, keys, visited, groups,
                   component, queue, todo, unknown_father_groups,
                   known_paternal_groups, known_maternal_groups, mixed_groups>>
    /\ UNCHANGED notTri

\* Mutant: the paternal test comes first.
ClassifyTagPaternalFirst(surnames) ==
    LET has_known_paternal == \E s \in KNOWN_PATERNAL_SURNAMES : s \in surnames
        has_known_maternal == \E s \in KNOWN_MATERNAL_SURNAMES : s \in surnames
    IN IF has_known_paternal THEN "KNOWN_PATERNAL"
       ELSE IF has_known_maternal THEN "KNOWN_MATERNAL"
       ELSE "UNKNOWN"

\* The tag classify_matches gives a match with these surnames.
ClassifyTag(surnames) ==
    LET has_known_paternal == \E s \in KNOWN_PATERNAL_SURNAMES : s \in surnames
        has_known_maternal == \E s \in KNOWN_MATERNAL_SURNAMES : s \in surnames
    IN IF has_known_maternal THEN "KNOWN_MATERNAL"
       ELSE IF has_known_paternal THEN "KNOWN_PATERNAL"
       ELSE "UNKNOWN"

ClassifyMatches ==
    /\ pc = "classify_matches"
    /\ target_matches' =
          [id \in DOMAIN target_matches |->
              [target_matches[id] EXCEPT
                  !.classification = ClassifyTag(target_matches[id].surnames_in_tree)]]
    /\ keys' = SetToSeq(DOMAIN target_matches)
    /\ pc' = "groups_for"
    /\ UNCHANGED <<dna_match, shared_match, min_group_size, triangulation_edges,
                   visited, groups, component, queue, todo, unknown_father_groups,
                   known_paternal_groups, known_maternal_groups, mixed_groups>>
    /\ UNCHANGED notTri

\* Mutant: adj[m2].add(m1) is left out.
AdjOfDirected(tri_edges) ==
    LET nodes == {r[1] : r \in tri_edges} \cup {r[2] : r \in tri_edges}
    IN [n \in nodes |-> {r[2] : r \in {e \in tri_edges : e[1] = n}}]

\* adj of build_triangulation_groups: every end of an edge maps to the set of
\* the other ends of its edges.
AdjOf(tri_edges) ==
    LET nodes == {r[1] : r \in tri_edges} \cup {r[2] : r \in tri_edges}
    IN [n \in nodes |->
           {r[2] : r \in {e \in tri_edges : e[1] = n}}
             \cup {r[1] : r \in {e \in tri_edges : e[2] = n}}]

adj == AdjOf(triangulation_edges)

\* for start in target_matches.keys(): one iteration up to the BFS loop.
GroupsFor ==
    /\ pc = "groups_for"
    /\ keys # <<>>
    /\ keys' = Tail(keys)
    /\ LET start == Head(keys)
       IN \/ /\ start \in visited
             /\ UNCHANGED <<component, queue, pc>>
          \/ /\ start \notin visited
             /\ start \notin DOMAIN adj
             /\ UNCHANGED <<component, queue, pc>>
          \/ /\ start \notin visited
             /\ start \in DOMAIN adj
             /\ component' = <<>>
             /\ queue' = <<start>>
             /\ pc' = "bfs"
    /\ UNCHANGED <<dna_match, shared_match, min_group_size, target_matches,
                   triangulation_edges, visited, groups, todo,
                   unknown_father_groups, known_paternal_groups,
                   known_maternal_groups, mixed_groups>>
    /\ UNCHANGED notTri

\* The neighbours a visit of node appends to the queue (a set of small
\* integers iterates in ascending order).
Enqueued(node, seen) == SetToSeq({n \in adj[node] : n \notin seen})

\* Mutant: a node taken from the queue is visited whether or not it has been.
BfsStepUnchecked ==
    /\ pc = "bfs"
    /\ queue # <<>>
    /\ LET node == Head(queue)
       IN /\ visited' = visited \cup {node}
          /\ component' = Append(component, node)
          /\ queue' = Tail(queue) \o Enqueued(node, visited \cup {node})
    /\ UNCHANGED <<pc, dna_match, shared_match, min_group_size, target_matches,
                   triangulation_edges, keys, groups, todo, unknown_father_groups,
                   known_paternal_groups, known_maternal_groups, mixed_groups>>
    /\ UNCHANGED notTri

\* while queue: one iteration.
BfsStep ==
    /\ pc = "bfs"
    /\ queue # <<>>
    /\ LET node == Head(queue)
       IN \/ /\ node \in visited
             /\ queue' = Tail(queue)
             /\ UNCHANGED <<visited, component>>
          \/ /\ node \notin visited
             /\ visited' = visited \cup {node}
             /\ component' = Append(component, node)
             /\ queue' = Tail(queue) \o Enqueued(node, visited \cup {node})
    /\ UNCHANGED <<pc, dna_match, shared_match, min_group_size, target_matches,
                   triangulation_edges, keys, groups, todo, unknown_father_groups,
                   known_paternal_groups, known_maternal_groups, mixed_groups>>
    /\ UNCHANGED notTri

\* Mutant: a component of exactly min_group_size members is discarded.
KeepGroupStrict(c) == Len(c) > min_group_size

\* The size test that ends an iteration of the for loop.
KeepGroup(c) == Len(c) >= min_group_size

BfsDone ==
    /\ pc = "bfs"
    /\ queue = <<>>
    /\ groups' = IF KeepGroup(component) THEN Append(groups, component) ELSE groups
    /\ pc' = "groups_for"
    /\ UNCHANGED <<dna_match, shared_match, min_group_size, target_matches,
                   triangulation_edges, keys, visited, component, queue, todo,
                   unknown_father_groups, known_paternal_groups,
                   known_maternal_groups, mixed_groups>>
    /\ UNCHANGED notTri

\* sorted(groups, key=len, reverse=True): stable, longest first.
RECURSIVE InsertByLen(_, _)
InsertByLen(sorted, g) ==
    IF sorted = <<>> THEN <<g>>
    ELSE IF Len(Head(sorted)) >= Len(g)
         THEN <<Head(sorted)>> \o InsertByLen(Tail(sorted), g)
         ELSE <<g>> \o sorted

RECURSIVE SortedByLen(_)
SortedByLen(gs) ==
    IF gs = <<>> THEN <<>>
    ELSE InsertByLen(SortedByLen(SubSeq(gs, 1, Len(gs) - 1)), gs[Len(gs)])

\* return groups, then enumerate(sorted(groups, key=len, reverse=True)).
GroupsReturn ==
    /\ pc = "groups_for"
    /\ keys = <<>>
    /\ todo' = LET s == SortedByLen(groups)
               IN [k \in DOMAIN s |-> <<k - 1, s[k]>>]
    /\ pc' = "analyze"
    /\ UNCHANGED <<dna_match, shared_match, min_group_size, target_matches,
                   triangulation_edges, keys, visited, groups, component, queue,
                   unknown_father_groups, known_paternal_groups,
                   known_maternal_groups, mixed_groups>>
    /\ UNCHANGED notTri

\* m.get('classification', 'UNKNOWN')
ClassificationOf(m) ==
    IF m.classification = "NONE" THEN "UNKNOWN" ELSE m.classification

\* d.get(k, 0) on a dict of counts.
Get(d, k) == IF k \in DOMAIN d THEN d[k] ELSE 0

RECURSIVE SumCm(_)
SumCm(group) ==
    IF group = <<>> THEN 0
    ELSE target_matches[Head(group)].cm + SumCm(Tail(group))

\* The internal_edges list of analyze_group.
InternalEdges(group) ==
    LET group_set == Range(group)
    IN {e \in triangulation_edges : e[1] \in group_set /\ e[2] \in group_set}

\* analyze_group.  A quotient is kept as the pair <<numerator, denominator>>.
AnalyzeGroup(group) ==
    LET tags == {ClassificationOf(target_matches[group[k]]) : k \in DOMAIN group}
        classifications ==
            [t \in tags |->
                Cardinality({k \in DOMAIN group :
                               ClassificationOf(target_matches[group[k]]) = t})]
        internal_edges == Cardinality(InternalEdges(group))
        possible_edges == (Len(group) * (Len(group) - 1)) \div 2
    IN [size |-> Len(group),
        avg_cm |-> <<SumCm(group), Len(group)>>,
        classifications |-> classifications,
        internal_edges |-> internal_edges,
        density |-> IF possible_edges > 0 THEN <<internal_edges, possible_edges>>
                    ELSE <<0, 1>>,
        members |-> group,
        all_surnames |-> UNION {target_matches[group[k]].surnames_in_tree :
                                  k \in DOMAIN group}]

\* Mutant: KNOWN_MATERNAL needs more than half of the members too.
GroupClassMaternalMajority(analysis, group) ==
    IF 2 * Get(analysis.classifications, "KNOWN_MATERNAL") > Len(group)
      THEN "KNOWN_MATERNAL"
    ELSE IF 2 * Get(analysis.classifications, "KNOWN_PATERNAL") > Len(group)
         THEN "KNOWN_PATERNAL"
    ELSE IF 2 * Get(analysis.classifications, "UNKNOWN") > Len(group) THEN "UNKNOWN"
    ELSE "MIXED"

\* Mutant: half of the members is enough (>= for >).
GroupClassAtLeastHalf(analysis, group) ==
    IF Get(analysis.classifications, "KNOWN_MATERNAL") > 0 THEN "KNOWN_MATERNAL"
    ELSE IF 2 * Get(analysis.classifications, "KNOWN_PATERNAL") >= Len(group)
         THEN "KNOWN_PATERNAL"
    ELSE IF 2 * Get(analysis.classifications, "UNKNOWN") >= Len(group) THEN "UNKNOWN"
    ELSE "MIXED"

\* The if/elif chain of find_unknown_father_candidates that files a group;
\* count > len(group) * 0.5 is 2 * count > len(group).
GroupClass(analysis, group) ==
    IF Get(analysis.classifications, "KNOWN_MATERNAL") > 0 THEN "KNOWN_MATERNAL"
    ELSE IF 2 * Get(analysis.classifications, "KNOWN_PATERNAL") > Len(group)
         THEN "KNOWN_PATERNAL"
    ELSE IF 2 * Get(analysis.classifications, "UNKNOWN") > Len(group) THEN "UNKNOWN"
    ELSE "MIXED"

\* One iteration of the loop over the sorted groups.
AnalyzeNext ==
    /\ pc = "analyze"
    /\ todo # <<>>
    /\ LET i == Head(todo)[1]
           group == Head(todo)[2]
           analysis == AnalyzeGroup(group)
           class == GroupClass(analysis, group)
           Filed(list, tag) ==
               IF class = tag THEN Append(list, <<i, analysis>>) ELSE list
       IN /\ known_maternal_groups' = Filed(known_maternal_groups, "KNOWN_MATERNAL")
          /\ known_paternal_groups' = Filed(known_paternal_groups, "KNOWN_PATERNAL")
          /\ unknown_father_groups' = Filed(unknown_father_groups, "UNKNOWN")
          /\ mixed_groups' = Filed(mixed_groups, "MIXED")
    /\ todo' = Tail(todo)
    /\ UNCHANGED <<pc, dna_match, shared_match, min_group_size, target_matches,
                   triangulation_edges, keys, visited, groups, component, queue>>
    /\ UNCHANGED notTri

AnalyzeDone ==
    /\ pc = "analyze"
    /\ todo = <<>>
    /\ pc' = "done"
    /\ UNCHANGED triVars
    /\ UNCHANGED notTri

\* ---------------------------------------------------------- initial rows
\* shared_match has one row for each (match1_id, match2_name).
OneRowPerPair(rows) ==
    \A r1, r2 \in rows : (r1[1] = r2[1] /\ r1[2] = r2[2]) => r1 = r2

\* Both directions at 25 cM for each pair of a set of unordered pairs.
SymmetricRows(pairs) ==
    {<<p[1], p[2], 25>> : p \in pairs} \cup {<<p[2], p[1], 25>> : p \in pairs}

UnorderedPairs == {p \in Ids \X Ids : p[1] < p[2]}

\* Row sets of at most MaxRows rows; match2_id is NULL for a shared match
\* that is no row of dna_match.
FreeRows == Ids \X (Ids \cup {NullInt}) \X {10, 25}
RECURSIVE SubsetsUpTo(_, _)
SubsetsUpTo(S, n) ==
    IF n = 0 THEN {{}}
    ELSE LET smaller == SubsetsUpTo(S, n - 1)
         IN smaller \cup {T \cup {x} : T \in smaller, x \in S}

\* The graph of no nodes and no edges: nx.Graph().
EmptyGraph == [nodes |-> {}, edges |-> <<>>]

\* The state of the graph programs before they have run.
GraphIdle ==
    /\ submitted = {}
    /\ nsaved = 0
    /\ ancestry_person = {}
    /\ ancestry_match = {}
    /\ graph_min_cm = 0
    /\ people = {}
    /\ edges = {}
    /\ G = EmptyGraph

\* dna_clustering.py's analysis and generate_cluster_matrix.py not run.
AnaIdle ==
    /\ min_size = 3
    /\ max_cliques = 100
    /\ components = <<>>
    /\ components_sorted = <<>>
    /\ clique_iter = {}
    /\ cliques = <<>>
    /\ cliques_sorted = <<>>

MtxIdle ==
    /\ matches = <<>>
    /\ shared = <<>>
    /\ mids = <<>>
    /\ cluster = <<>>
    /\ clusters = <<>>
    /\ result = <<>>

\* Community detection before it has run, tables cluster and
\* dna_match.cluster_id not being looked at.
CommIdle ==
    /\ node_order = <<>>
    /\ communities = <<>>
    /\ partition = <<>>
    /\ results = <<>>
    /\ saving = <<>>
    /\ new_cluster_id = NullInt
    /\ to_tag = <<>>
    /\ conn = <<>>
    /\ db = <<>>

\* migrate_to_ancestry_graph.py not run.
MigIdle ==
    /\ pg_dna_match = {}
    /\ id_to_ancestry = <<>>
    /\ name_to_ancestry = <<>>
    /\ missing_people = <<>>

\* The locals of find_unknown_father_matches.py before it has run.
TriLocalsIdle ==
    /\ target_matches = <<>>
    /\ triangulation_edges = {}
    /\ keys = <<>>
    /\ visited = {}
    /\ groups = <<>>
    /\ component = <<>>
    /\ queue = <<>>
    /\ todo = <<>>
    /\ unknown_father_groups = <<>>
    /\ known_paternal_groups = <<>>
    /\ known_maternal_groups = <<>>
    /\ mixed_groups = <<>>

\* Scenario A of the specification: the subject shares 50, 45 and 40 cM with
\* the matches 1, 2 and 3; 1 and 2 share 25 cM, 1 and 3 share 22 cM, 2 and 3
\* nothing.  Any further row of dna_match is below min_cm.
ScenarioAMatches ==
    [id \in Ids |->
        [cm |-> CASE id = 1 -> 50 [] id = 2 -> 45 [] id = 3 -> 40 [] OTHER -> 10,
         side |-> "paternal",
         tree_id |-> NULL]]

ScenarioAEdges == {<<1, 2, 25>>, <<1, 3, 22>>}

\* The ways shared_match can hold the edges of scenario A: each edge as the
\* row of one of its ends or of both.
ScenarioARows ==
    {rows \in SUBSET UNION {{<<e[1], e[2], e[3]>>, <<e[2], e[1], e[3]>>} :
                               e \in ScenarioAEdges} :
        \A e \in ScenarioAEdges :
            <<e[1], e[2], e[3]>> \in rows \/ <<e[2], e[1], e[3]>> \in rows}

\* --min-group as argparse takes it from "--min-group -1": type=int puts no
\* bound on it.
NegativeMinGroup == 0 - 1

\* The linked trees vary and the shared matches are symmetric, or the
\* shared_match rows vary and nobody has a linked tree, or scenario A, with
\* its min_group_size or with a negative one.
TriInit ==
    /\ pc = "get_triangulation_data"
    /\ TriLocalsIdle
    /\ GraphIdle
    /\ AnaIdle
    /\ MtxIdle
    /\ CommIdle
    /\ MigIdle
    /\ min_group_size \in {NegativeMinGroup, 1, 2, 3}
    /\ \/ /\ min_group_size >= 2
          /\ dna_match \in [Ids -> [cm : {50}, side : {"paternal"},
                                      tree_id : {NULL, "T2", "T3", "T4", "T5"}]]
          /\ \E pairs \in SUBSET UnorderedPairs : shared_match = SymmetricRows(pairs)
       \/ /\ min_group_size \in {1, 2}
          /\ dna_match = [id \in Ids |->
                            [cm |-> 50, side |-> "both",
                             tree_id |-> IF id % 2 = 0 THEN "T0" ELSE "T1"]]
          /\ shared_match \in {rows \in SubsetsUpTo(FreeRows, MaxRows) :
                                  OneRowPerPair(rows)}
       \/ /\ min_group_size \in {NegativeMinGroup, 3}
          /\ dna_match = ScenarioAMatches
          /\ shared_match \in ScenarioARows

TriNext ==
    \/ GetTriangulationData
    \/ ClassifyMatches
    \/ GroupsFor
    \/ BfsStep
    \/ BfsDone
    \/ GroupsReturn
    \/ AnalyzeNext
    \/ AnalyzeDone

SpecTri == TriInit /\ [][TriNext]_vars

\* ----------------------------------------------------------------------
\* Properties of the triangulation pipeline
\* ----------------------------------------------------------------------

\* How many members of group g carry the per-member tag.
NumTagged(g, tag) ==
    Cardinality({k \in DOMAIN g : target_matches[g[k]].classification = tag})

\* The filed groups as pairs <<classification, members>>.
FiledGroups ==
    {<<"KNOWN_MATERNAL", e[2].members>> : e \in Range(known_maternal_groups)}
      \cup {<<"KNOWN_PATERNAL", e[2].members>> : e \in Range(known_paternal_groups)}
      \cup {<<"UNKNOWN", e[2].members>> : e \in Range(unknown_father_groups)}
      \cup {<<"MIXED", e[2].members>> : e \in Range(mixed_groups)}

NumFiled ==
    Len(known_maternal_groups) + Len(known_paternal_groups)
      + Len(unknown_father_groups) + Len(mixed_groups)

\* The classification rule of the specification, from the members' tags.
RuleClass(g) ==
    IF NumTagged(g, "KNOWN_MATERNAL") >= 1 THEN "KNOWN_MATERNAL"
    ELSE IF 2 * NumTagged(g, "KNOWN_PATERNAL") > Len(g) THEN "KNOWN_PATERNAL"
    ELSE IF 2 * NumTagged(g, "UNKNOWN") > Len(g) THEN "UNKNOWN"
    ELSE "MIXED"

\* C1: every triangulation group is filed under the classification the rule
\* gives (KNOWN_MATERNAL if any member is KNOWN_MATERNAL, else KNOWN_PATERNAL
\* if more than half are KNOWN_PATERNAL, else UNKNOWN if more than half are
\* UNKNOWN, else MIXED); at the end every group is filed under exactly one
\* classification, and a group with a KNOWN_MATERNAL member is never filed as
\* KNOWN_PATERNAL or UNKNOWN.
C1_GroupClassification ==
    /\ \A f \in FiledGroups : f[1] = RuleClass(f[2])
    /\ \A f \in FiledGroups :
          NumTagged(f[2], "KNOWN_MATERNAL") > 0
            => f[1] \notin {"KNOWN_PATERNAL", "UNKNOWN"}
    /\ pc = "done" =>
          /\ \A k \in DOMAIN groups :
                Cardinality({f \in FiledGroups : f[2] = groups[k]}) = 1
          /\ NumFiled = Len(groups)

\* A group in which more than half are KNOWN_PATERNAL and one is
\* KNOWN_MATERNAL has been filed as KNOWN_MATERNAL.
C1_Witness ==
    /\ pc = "done"
    /\ \E f \in FiledGroups :
          /\ f[1] = "KNOWN_MATERNAL"
          /\ 2 * NumTagged(f[2], "KNOWN_PATERNAL") > Len(f[2])

\* C2 as stated: a group is KNOWN_MATERNAL only when over half of its members
\* are tagged KNOWN_MATERNAL, KNOWN_PATERNAL only when over half are tagged
\* KNOWN_PATERNAL; otherwise UNKNOWN if over half are UNKNOWN, otherwise MIXED.
C2_MajorityBothSides ==
    \A f \in FiledGroups :
        f[1] = IF 2 * NumTagged(f[2], "KNOWN_MATERNAL") > Len(f[2])
                 THEN "KNOWN_MATERNAL"
               ELSE IF 2 * NumTagged(f[2], "KNOWN_PATERNAL") > Len(f[2])
                 THEN "KNOWN_PATERNAL"
               ELSE IF 2 * NumTagged(f[2], "UNKNOWN") > Len(f[2]) THEN "UNKNOWN"
               ELSE "MIXED"

\* C2 amended: a group is KNOWN_MATERNAL only when at least one member is
\* tagged KNOWN_MATERNAL; KNOWN_PATERNAL only when over half are tagged
\* KNOWN_PATERNAL and none KNOWN_MATERNAL; UNKNOWN only when over half are
\* UNKNOWN and none KNOWN_MATERNAL; MIXED only when no member is
\* KNOWN_MATERNAL and neither KNOWN_PATERNAL nor UNKNOWN has over half.
C2_MajorityExceptMaternal ==
    \A f \in FiledGroups :
        LET g == f[2]
            mat == NumTagged(g, "KNOWN_MATERNAL")
            pat == NumTagged(g, "KNOWN_PATERNAL")
            unk == NumTagged(g, "UNKNOWN")
        IN /\ f[1] = "KNOWN_MATERNAL" => mat >= 1
           /\ f[1] = "KNOWN_PATERNAL" => (2 * pat > Len(g) /\ mat = 0)
           /\ f[1] = "UNKNOWN" => (2 * unk > Len(g) /\ mat = 0)
           /\ f[1] = "MIXED" => (mat = 0 /\ 2 * pat <= Len(g) /\ 2 * unk <= Len(g))

\* A group of three with one KNOWN_MATERNAL and two UNKNOWN members has been
\* filed as KNOWN_MATERNAL.
C2_Witness ==
    /\ pc = "done"
    /\ \E f \in FiledGroups :
          /\ f[1] = "KNOWN_MATERNAL"
          /\ 2 * NumTagged(f[2], "KNOWN_MATERNAL") <= Len(f[2])
          /\ Len(f[2]) = 3
          /\ NumTagged(f[2], "UNKNOWN") = 2

\* C3: after classify_matches every candidate carries exactly one of the three
\* tags: KNOWN_MATERNAL if its surnames meet the known maternal surnames (also
\* when they meet the paternal ones too), else KNOWN_PATERNAL if they meet the
\* known paternal surnames, else UNKNOWN; no surnames gives UNKNOWN.
C3_MemberTag ==
    pc \notin {"get_triangulation_data", "classify_matches"} =>
        \A id \in DOMAIN target_matches :
            LET m == target_matches[id]
                mat == m.surnames_in_tree \cap KNOWN_MATERNAL_SURNAMES # {}
                pat == m.surnames_in_tree \cap KNOWN_PATERNAL_SURNAMES # {}
            IN /\ m.classification \in {"KNOWN_MATERNAL", "KNOWN_PATERNAL", "UNKNOWN"}
               /\ mat <=> m.classification = "KNOWN_MATERNAL"
               /\ (pat /\ ~mat) <=> m.classification = "KNOWN_PATERNAL"
               /\ m.surnames_in_tree = {} => m.classification = "UNKNOWN"

\* A candidate whose surnames meet both known sets is tagged KNOWN_MATERNAL,
\* one with a paternal surname only KNOWN_PATERNAL, one with no surname UNKNOWN.
C3_Witness ==
    /\ pc = "groups_for"
    /\ \E a, b, c \in DOMAIN target_matches :
          /\ target_matches[a].surnames_in_tree \cap KNOWN_PATERNAL_SURNAMES # {}
          /\ target_matches[a].surnames_in_tree \cap KNOWN_MATERNAL_SURNAMES # {}
          /\ target_matches[a].classification = "KNOWN_MATERNAL"
          /\ target_matches[b].classification = "KNOWN_PATERNAL"
          /\ target_matches[c].surnames_in_tree = {}
          /\ target_matches[c].classification = "UNKNOWN"

\* The members reachable from the set front by triangulation edges whose two
\* ends are in S.
RECURSIVE ReachWithin(_, _)
ReachWithin(front, S) ==
    LET next == front \cup
                  {e[2] : e \in {x \in triangulation_edges :
                                    x[1] \in front /\ x[2] \in S}}
                  \cup
                  {e[1] : e \in {x \in triangulation_edges :
                                    x[2] \in front /\ x[1] \in S}}
    IN IF next = front THEN front ELSE ReachWithin(next, S)

\* C5: every returned group is a maximal connected set of the triangulation
\* graph: any two members are joined by a path of triangulation edges through
\* members only, and no triangulation edge joins a member to a non-member.
C5_GroupsAreMaximalConnected ==
    \A k \in DOMAIN groups :
        LET S == Range(groups[k])
        IN /\ \A a \in S : ReachWithin({a}, S) = S
           /\ \A e \in triangulation_edges : e[1] \in S <=> e[2] \in S
           /\ S \subseteq DOMAIN target_matches

\* A returned group of three has two members that share no triangulation
\* edge, so they are joined only through the third.
C5_Witness ==
    /\ pc = "done"
    /\ \E k \in DOMAIN groups :
          /\ Len(groups[k]) >= 3
          /\ \E a, b \in Range(groups[k]) :
                /\ a # b
                /\ \A e \in triangulation_edges : {e[1], e[2]} # {a, b}

\* ======================================================================
\* scripts/import_shared_matches.py, scripts/ancestry_import.py:
\* the writers of table shared_match
\* ======================================================================
\* A row of shared_match is <<match1_id, match2_id, cm, match2_name>>.

\* Largest number of entries handed to the writers in one run.
MaxSaved == 2

\* SELECT id FROM dna_match WHERE name = ?, fetchone(): the first row of
\* that name, or None.
LookupByName(name) ==
    LET found == {id \in Ids : dna_match[id].name = name}
    IN IF found = {} THEN NullInt
       ELSE CHOOSE id \in found : \A other \in found : id <= other

\* COALESCE(a, b)
Coalesce(a, b) == IF a # NullInt THEN a ELSE b

\* INSERT ... ON CONFLICT(match1_id, match2_name) DO UPDATE SET
\*   match1_to_match2_cm = excluded.match1_to_match2_cm,
\*   match2_id = COALESCE(excluded.match2_id, match2_id)
Upsert(table, match1_id, match2_id, name, cm) ==
    LET old == {r \in table : r[1] = match1_id /\ r[4] = name}
    IN IF old = {} THEN table \cup {<<match1_id, match2_id, cm, name>>}
       ELSE (table \ old)
              \cup {<<match1_id, Coalesce(match2_id, r[2]), cm, name>> : r \in old}

\* INSERT OR REPLACE INTO shared_match: the row of the same key is replaced.
InsertOrReplace(table, match1_id, match2_id, name, cm) ==
    (table \ {r \in table : r[1] = match1_id /\ r[4] = name})
      \cup {<<match1_id, match2_id, cm, name>>}

\* The display names the shared-match page of match_id can show: those of
\* the other rows of dna_match and that of a stranger.
ScrapedNames(match_id) ==
    {dna_match[id].name : id \in Ids \ {match_id}} \cup {"Zed"}

\* save_shared_matches(match_id, match_name, [sm]): one scraped entry.
SaveSharedMatches ==
    /\ pc = "import_shared_matches"
    /\ nsaved < MaxSaved
    /\ \E match_id \in Ids, cm \in {10, 25, 30} : \E name \in ScrapedNames(match_id) :
          LET match2_id == LookupByName(name)
          IN /\ shared_match' = Upsert(shared_match, match_id, match2_id, name, cm)
             /\ submitted' = submitted \cup {<<match_id, match2_id, cm>>}
    /\ nsaved' = nsaved + 1
    /\ UNCHANGED <<pc, dna_match, ancestry_person, ancestry_match, graph_min_cm,
                   people, edges, G>>
    /\ UNCHANGED <<min_group_size, target_matches, triangulation_edges, keys,
                   visited, groups, component, queue, todo, unknown_father_groups,
                   known_paternal_groups, known_maternal_groups, mixed_groups>>
    /\ UNCHANGED <<anaVars, mtxVars, commVars, migVars>>

\* scan_shared_matches of ancestry_import.py: one scraped entry, whose
\* match_cm is null when the page shows no cM figure.
ScanSharedMatches ==
    /\ pc = "import_shared_matches"
    /\ nsaved < MaxSaved
    /\ \E match_id \in Ids, cm \in {NullInt, 30} : \E name \in ScrapedNames(match_id) :
          LET match2_id == LookupByName(name)
          IN /\ shared_match' =
                   InsertOrReplace(shared_match, match_id, match2_id, name, cm)
             /\ submitted' = submitted \cup {<<match_id, match2_id, cm>>}
    /\ nsaved' = nsaved + 1
    /\ UNCHANGED <<pc, dna_match, ancestry_person, ancestry_match, graph_min_cm,
                   people, edges, G>>
    /\ UNCHANGED <<min_group_size, target_matches, triangulation_edges, keys,
                   visited, groups, component, queue, todo, unknown_father_groups,
                   known_paternal_groups, known_maternal_groups, mixed_groups>>
    /\ UNCHANGED <<anaVars, mtxVars, commVars, migVars>>

\* ======================================================================
\* scripts/cluster_matches.py
\* ======================================================================

\* Defaults of build_shared_match_graph.
cluster_min_cm == 15
min_shared_cm == 20

\* G.has_edge(u, v)
HasEdge(g, u, v) == {u, v} \in DOMAIN g.edges

\* G.add_edge(u, v, weight=w): the ends become nodes, the weight of an edge
\* already there is overwritten.
AddEdge(g, u, v, w) ==
    [nodes |-> g.nodes \cup {u, v},
     edges |-> [k \in DOMAIN g.edges \cup {{u, v}} |->
                   IF k = {u, v} THEN w ELSE g.edges[k]]]

\* Mutant: no node is added for a person, so that only the ends of an edge
\* are nodes.
AddNoNodes(g, ns) == g

\* G.add_node(n) for every n of the node list.
AddNodes(g, ns) == [g EXCEPT !.nodes = g.nodes \cup ns]

Max(a, b) == IF a >= b THEN a ELSE b

\* SELECT id FROM dna_match WHERE shared_cm >= min_cm
AboveMinCm == {id \in Ids : dna_match[id].cm # NullInt
                               /\ dna_match[id].cm >= cluster_min_cm}

\* The first query of build_shared_match_graph: the node list.
SharedMatchNodes ==
    {id \in AboveMinCm : \E r \in shared_match : r[1] = id}

\* Mutant: the test "match1_id in matches and match2_id in matches" is left out.
SharedMatchEdgesUnfiltered(nodes) ==
    {r \in shared_match :
        /\ r[2] # NullInt
        /\ r[3] # NullInt
        /\ r[3] >= min_shared_cm
        /\ r[1] \in AboveMinCm
        /\ r[2] \in AboveMinCm}

\* The second query and the filter of the loop that follows it.
SharedMatchEdges(nodes) ==
    {r \in shared_match :
        /\ r[2] # NullInt
        /\ r[3] # NullInt
        /\ r[3] >= min_shared_cm
        /\ r[1] \in AboveMinCm
        /\ r[2] \in AboveMinCm
        /\ r[1] \in nodes
        /\ r[2] \in nodes}

\* build_shared_match_graph up to the loop that adds the edges.
BuildSharedMatchGraph ==
    /\ pc = "import_shared_matches"
    /\ people' = SharedMatchNodes
    /\ edges' = SharedMatchEdges(SharedMatchNodes)
    /\ G' = AddNodes(EmptyGraph, SharedMatchNodes)
    /\ pc' = "shared_add_edges"
    /\ UNCHANGED <<dna_match, shared_match, submitted, nsaved, ancestry_person,
                   ancestry_match, graph_min_cm>>
    /\ UNCHANGED <<min_group_size, target_matches, triangulation_edges, keys,
                   visited, groups, component, queue, todo, unknown_father_groups,
                   known_paternal_groups, known_maternal_groups, mixed_groups>>
    /\ UNCHANGED <<anaVars, mtxVars, commVars, migVars>>

\* The graph after one pass of the loop "for m1, m2, cm in edges".
SharedEdgeAdded(g, m1, m2, cm) ==
    IF HasEdge(g, m1, m2)
      THEN AddEdge(g, m1, m2, Max(g.edges[{m1, m2}], cm))
      ELSE AddEdge(g, m1, m2, cm)

\* One pass of that loop; the rows come in the order the query returns them,
\* which no ORDER BY fixes.
SharedAddEdge ==
    /\ pc = "shared_add_edges"
    /\ \E r \in edges :
          /\ G' = SharedEdgeAdded(G, r[1], r[2], r[3])
          /\ edges' = edges \ {r}
    /\ UNCHANGED <<pc, dna_match, shared_match, submitted, nsaved, ancestry_person,
                   ancestry_match, graph_min_cm, people>>
    /\ UNCHANGED <<min_group_size, target_matches, triangulation_edges, keys,
                   visited, groups, component, queue, todo, unknown_father_groups,
                   known_paternal_groups, known_maternal_groups, mixed_groups>>
    /\ UNCHANGED <<anaVars, mtxVars, commVars, migVars>>

\* return G, matches
SharedBuilt ==
    /\ pc = "shared_add_edges"
    /\ edges = {}
    /\ pc' = "shared_built"
    /\ UNCHANGED <<triVars, graphVars, anaVars, mtxVars, commVars, migVars>>

\* ======================================================================
\* dna_clustering.py
\* ======================================================================

\* Mutant: the query has no WHERE clause.
GraphEdgesAll == ancestry_match

\* The second query of build_graph:
\* WHERE shared_cm >= min_cm OR shared_cm IS NULL
GraphEdges ==
    {r \in ancestry_match : r[3] = NullInt \/ r[3] >= graph_min_cm}

\* float(cm) if cm else 0.0
EdgeCm(cm) == IF cm = NullInt \/ cm = 0 THEN 0 ELSE cm

\* build_graph up to the loop that adds the edges.
BuildGraph ==
    /\ pc = "build_graph"
    /\ people' = ancestry_person
    /\ edges' = GraphEdges
    /\ G' = AddNodes(EmptyGraph, ancestry_person)
    /\ pc' = "graph_add_edges"
    /\ UNCHANGED <<dna_match, shared_match, submitted, nsaved, ancestry_person,
                   ancestry_match, graph_min_cm>>
    /\ UNCHANGED <<min_group_size, target_matches, triangulation_edges, keys,
                   visited, groups, component, queue, todo, unknown_father_groups,
                   known_paternal_groups, known_maternal_groups, mixed_groups>>
    /\ UNCHANGED <<anaVars, mtxVars, commVars, migVars>>

\* One pass of the loop "for p1, p2, cm in edges".
GraphAddEdge ==
    /\ pc = "graph_add_edges"
    /\ \E r \in edges :
          /\ G' = AddEdge(G, r[1], r[2], EdgeCm(r[3]))
          /\ edges' = edges \ {r}
    /\ UNCHANGED <<pc, dna_match, shared_match, submitted, nsaved, ancestry_person,
                   ancestry_match, graph_min_cm, people>>
    /\ UNCHANGED <<min_group_size, target_matches, triangulation_edges, keys,
                   visited, groups, component, queue, todo, unknown_father_groups,
                   known_paternal_groups, known_maternal_groups, mixed_groups>>
    /\ UNCHANGED <<anaVars, mtxVars, commVars, migVars>>

\* return G, people
GraphBuilt ==
    /\ pc = "graph_add_edges"
    /\ edges = {}
    /\ pc' = "graph_built"
    /\ UNCHANGED <<triVars, graphVars, anaVars, mtxVars, commVars, migVars>>

\* ----------------------------------------------- analyze_components

\* G[u]: the neighbours of u, u itself among them when it has a self-loop.
Neighbors(g, u) == {v \in g.nodes : {u, v} \in DOMAIN g.edges}

\* Mutant: the search stops after the first level.
PlainBfsOneLevel(g, seen, nextlevel) ==
    seen \cup UNION {Neighbors(g, v) : v \in nextlevel}

\* The breadth-first search of nx.connected_components from the nodes of
\* nextlevel: every node reached, level by level.
RECURSIVE PlainBfs(_, _, _)
PlainBfs(g, seen, nextlevel) ==
    IF nextlevel = {} THEN seen
    ELSE LET found == UNION {Neighbors(g, v) : v \in nextlevel} \ seen
         IN PlainBfs(g, seen \cup found, found)

\* nx.connected_components(G): for each node not seen yet, in the order of
\* the node list, the set of nodes its search reaches.
RECURSIVE ConnectedComponents(_, _, _)
ConnectedComponents(g, order, seen) ==
    IF order = <<>> THEN <<>>
    ELSE LET v == Head(order)
             c == PlainBfs(g, {v}, {v})
         IN IF v \in seen
            THEN ConnectedComponents(g, Tail(order), seen)
            ELSE <<c>> \o ConnectedComponents(g, Tail(order), seen \cup c)

\* The orders in which the rows of a table can come back from a query
\* without ORDER BY: the lists of the members of S, each once.
Orders(S) ==
    {order \in [1..Cardinality(S) -> S] : \A x \in S : \E i \in DOMAIN order : order[i] = x}

\* sorted(components, key=len, reverse=True): stable, largest first.
RECURSIVE InsertBySize(_, _)
InsertBySize(sorted, c) ==
    IF sorted = <<>> THEN <<c>>
    ELSE IF Cardinality(Head(sorted)) >= Cardinality(c)
         THEN <<Head(sorted)>> \o InsertBySize(Tail(sorted), c)
         ELSE <<c>> \o sorted

\* Mutant: the components are listed as nx.connected_components yielded them.
ComponentsAsYielded(cs) == cs

RECURSIVE SortedBySize(_)
SortedBySize(cs) ==
    IF cs = <<>> THEN <<>>
    ELSE InsertBySize(SortedBySize(SubSeq(cs, 1, Len(cs) - 1)), cs[Len(cs)])

\* analyze_components(G, people).  The nodes of G are in the order of the
\* rows of ancestry_person, which the query leaves open.
AnalyzeComponents ==
    /\ pc = "graph_built"
    /\ node_order' \in Orders(G.nodes)
    /\ components' = ConnectedComponents(G, node_order', {})
    /\ components_sorted' = SortedBySize(components')
    /\ pc' = "find_communities"
    /\ UNCHANGED <<min_size, max_cliques, clique_iter, cliques, cliques_sorted>>
    /\ UNCHANGED <<communities, partition, results, saving, new_cluster_id,
                   to_tag, conn, db>>
    /\ UNCHANGED <<triVars, graphVars, mtxVars, migVars>>

\* ----------------------------------------------------- find_cliques

\* The adjacency nx.find_cliques works on: self-loops are left out.
CliqueAdj(g) == [u \in g.nodes |-> Neighbors(g, u) \ {u}]

\* The pivot of a step: a node of cand or excl with most neighbours in cand.
Pivot(nbrs, cand, excl) ==
    CHOOSE u \in cand \cup excl :
        \A w \in cand \cup excl :
            Cardinality(cand \cap nbrs[u]) >= Cardinality(cand \cap nbrs[w])

\* The cliques found from the clique Q: those that extend it by nodes of
\* cand and by none of excl.
RECURSIVE Expand(_, _, _, _)
RECURSIVE ExpandEach(_, _, _, _, _)
Expand(nbrs, Q, cand, excl) ==
    IF cand = {}
    THEN IF excl = {} THEN {Q} ELSE {}
    ELSE LET u == Pivot(nbrs, cand, excl)
         IN ExpandEach(nbrs, Q, cand, excl, SetToSeq(cand \ nbrs[u]))

ExpandEach(nbrs, Q, cand, excl, ext) ==
    IF ext = <<>> THEN {}
    ELSE LET q == Head(ext)
         IN Expand(nbrs, Q \cup {q}, cand \cap nbrs[q], excl \cap nbrs[q])
              \cup ExpandEach(nbrs, Q, cand \ {q}, excl \cup {q}, Tail(ext))

\* Mutant: every complete set of nodes is yielded, extensible or not.
NxCompleteSets(g) ==
    {Q \in SUBSET g.nodes \ {{}} :
        \A u, v \in Q : u # v => v \in CliqueAdj(g)[u]}

\* nx.find_cliques(G): nothing for a graph without nodes.
NxFindCliques(g) ==
    IF g.nodes = {} THEN {} ELSE Expand(CliqueAdj(g), {}, g.nodes, {})

\* The edges of G.subgraph(nodes), self-loops included.
SubgraphEdges(g, nodes) == {k \in DOMAIN g.edges : k \subseteq nodes}

\* Mutant: fewer than two nodes give 0, as possible_edges is then 0.
CalculateDensityZeroBelowTwo(g, nodes) ==
    LET n == Cardinality(nodes)
    IN IF n < 2 THEN <<0, 1>>
       ELSE <<Cardinality(SubgraphEdges(g, nodes)), (n * (n - 1)) \div 2>>

\* calculate_density(G, nodes) as the fraction <<numerator, denominator>>.
CalculateDensity(g, nodes) ==
    LET n == Cardinality(nodes)
    IN IF n < 2 THEN <<1, 1>>
       ELSE <<Cardinality(SubgraphEdges(g, nodes)), (n * (n - 1)) \div 2>>

\* find_cliques(G, min_size, max_cliques): the call of nx.find_cliques.
FindCliquesStart ==
    /\ pc = "find_cliques"
    /\ clique_iter' = NxFindCliques(G)
    /\ cliques' = <<>>
    /\ pc' = "cliques_for"
    /\ UNCHANGED <<min_size, max_cliques, components, components_sorted,
                   cliques_sorted>>
    /\ UNCHANGED <<triVars, graphVars, mtxVars, commVars, migVars>>

\* for i, clique in enumerate(nx.find_cliques(G)): one iteration, the cliques
\* coming in no particular order.
FindCliquesStep ==
    /\ pc = "cliques_for"
    /\ \E clique \in clique_iter :
          /\ clique_iter' = clique_iter \ {clique}
          /\ cliques' = IF Cardinality(clique) >= min_size
                        THEN Append(cliques,
                                    [nodes |-> clique,
                                     size |-> Cardinality(clique),
                                     density |-> CalculateDensity(G, clique)])
                        ELSE cliques
    /\ pc' = IF Len(cliques') >= max_cliques THEN "cliques_done" ELSE pc
    /\ UNCHANGED <<min_size, max_cliques, components, components_sorted,
                   cliques_sorted>>
    /\ UNCHANGED <<triVars, graphVars, mtxVars, commVars, migVars>>

\* return cliques, the generator being exhausted.
FindCliquesReturn ==
    /\ pc = "cliques_for"
    /\ clique_iter = {}
    /\ pc' = "cliques_done"
    /\ UNCHANGED anaVars
    /\ UNCHANGED <<triVars, graphVars, mtxVars, commVars, migVars>>

\* ----------------------------------------------------- print_cliques

\* --limit
limit == 20

\* sorted(cliques, key=lambda x: x['size'], reverse=True): stable, largest
\* first.
RECURSIVE InsertBySizeKey(_, _)
InsertBySizeKey(sorted, c) ==
    IF sorted = <<>> THEN <<c>>
    ELSE IF Head(sorted).size >= c.size
         THEN <<Head(sorted)>> \o InsertBySizeKey(Tail(sorted), c)
         ELSE <<c>> \o sorted

\* Mutant: the list is shown as find_cliques returned it.
CliquesAsReturned(cs) == cs

RECURSIVE SortedBySizeKey(_)
SortedBySizeKey(cs) ==
    IF cs = <<>> THEN <<>>
    ELSE InsertBySizeKey(SortedBySizeKey(SubSeq(cs, 1, Len(cs) - 1)), cs[Len(cs)])

\* seq[:n]
Take(seq, n) == SubSeq(seq, 1, IF Len(seq) < n THEN Len(seq) ELSE n)

\* print_cliques(cliques, people, limit), then the end of main.
PrintCliques ==
    /\ pc = "cliques_done"
    /\ cliques_sorted' = Take(SortedBySizeKey(cliques), limit)
    /\ pc' = "main_done"
    /\ UNCHANGED <<min_size, max_cliques, components, components_sorted,
                   clique_iter, cliques>>
    /\ UNCHANGED <<triVars, graphVars, mtxVars, commVars, migVars>>

\* ======================================================================
\* Community detection: find_communities of dna_clustering.py and
\* detect_communities, analyze_clusters, save_clusters_to_db of
\* scripts/cluster_matches.py
\* ======================================================================

\* The ways of splitting the set S into non-empty disjoint parts.
RECURSIVE PartitionsOf(_)
PartitionsOf(S) ==
    IF S = {} THEN {{}}
    ELSE LET x == CHOOSE y \in S : TRUE
         IN UNION {{{B \cup {x}} \cup P : P \in PartitionsOf(S \ (B \cup {x}))} :
                      B \in SUBSET (S \ {x})}

\* The ways of splitting each set of comps on its own.
RECURSIVE RefinementsOf(_)
RefinementsOf(comps) ==
    IF comps = {} THEN {{}}
    ELSE LET c == CHOOSE d \in comps : TRUE
         IN {P \cup Q : P \in PartitionsOf(c), Q \in RefinementsOf(comps \ {c})}

\* Mutant: all the nodes are put into one community.
BestPartitionsOneCommunity(g) == {{g.nodes}}

\* community_louvain.best_partition(G, weight=...): the optimiser is
\* randomised and is no code of this repository.  What is used of it: it
\* starts with every node in a community of its own and moves a node only
\* into the community of a neighbour, so that a community never leaves a
\* connected component; every splitting of the components is taken as a
\* possible outcome.
BestPartitions(g) ==
    RefinementsOf({PlainBfs(g, {v}, {v}) : v \in g.nodes})

\* greedy_modularity_communities(G): merges communities joined by an edge,
\* and is no code of this repository either; the same outcomes are allowed.
GreedyModularityCommunities(g) ==
    RefinementsOf({PlainBfs(g, {v}, {v}) : v \in g.nodes})

\* The parts of P in the order in which a pass over the nodes in the given
\* order first meets them.
RECURSIVE ByFirstNode(_, _)
ByFirstNode(P, order) ==
    IF order = <<>> THEN <<>>
    ELSE LET here == {c \in P : Head(order) \in c}
         IN (IF here = {} THEN <<>> ELSE <<CHOOSE c \in here : TRUE>>)
              \o ByFirstNode(P \ here, Tail(order))

\* Mutant: a community of any size is kept.
KeepCommunityAny(nodes) == TRUE

\* if len(nodes) >= min_size
KeepCommunity(nodes) == Cardinality(nodes) >= min_size

\* The loop of find_communities over the communities parts[n..]: those
\* kept, with their size and density.
RECURSIVE KeptCommunities(_, _, _)
KeptCommunities(g, parts, n) ==
    IF n > Len(parts) THEN <<>>
    ELSE (IF KeepCommunity(parts[n])
          THEN <<[nodes |-> parts[n],
                  size |-> Cardinality(parts[n]),
                  density |-> CalculateDensity(g, parts[n])]>>
          ELSE <<>>) \o KeptCommunities(g, parts, n + 1)

\* find_communities(G, min_size): with community_louvain when the import
\* succeeds, with greedy_modularity_communities on ImportError.  The
\* communities come in the order of the nodes of G, those of the second
\* largest first.
FindCommunities ==
    /\ pc = "find_communities"
    /\ \/ \E P \in BestPartitions(G) :
             communities' = KeptCommunities(G, ByFirstNode(P, node_order), 1)
       \/ \E P \in GreedyModularityCommunities(G) :
             communities' =
                KeptCommunities(G, SortedBySize(ByFirstNode(P, node_order)), 1)
    /\ pc' = "print_communities"
    /\ UNCHANGED <<node_order, partition, results, saving, new_cluster_id,
                   to_tag, conn, db>>
    /\ UNCHANGED <<triVars, graphVars, anaVars, mtxVars, migVars>>

\* print_communities(communities, people, limit), then main up to the clique
\* search, which --no-cliques skips.  main reads neither communities nor the
\* order of the nodes again: both leave the state here.
PrintCommunities ==
    /\ pc = "print_communities"
    /\ \/ pc' = "find_cliques"
       \/ pc' = "main_done"
    /\ node_order' = <<>>
    /\ communities' = <<>>
    /\ UNCHANGED <<partition, results, saving, new_cluster_id, to_tag, conn, db>>
    /\ UNCHANGED <<triVars, graphVars, anaVars, mtxVars, migVars>>

\* ------------------------------------------- scripts/cluster_matches.py

\* The imports at the head of cluster_matches.py: community_louvain is
\* imported outright, so that the script stops with ImportError where the
\* package is not installed.
ImportModules ==
    /\ pc = "cluster_matches"
    /\ \/ pc' = "import_shared_matches"
       \/ pc' = "import_error"
    /\ UNCHANGED <<triVars, graphVars, anaVars, mtxVars, commVars, migVars>>

\* The dict best_partition returns for the communities P, as the items
\* <<node, community id>> in the order of the nodes; the ids are 0, 1, ...
\* in the order in which the communities are first met.
PartitionItems(P, order) ==
    LET parts == ByFirstNode(P, order)
    IN [i \in DOMAIN order |->
           <<order[i], (CHOOSE n \in DOMAIN parts : order[i] \in parts[n]) - 1>>]

\* detect_communities(G, resolution): {} for a graph without edges.
DetectCommunities ==
    /\ pc = "shared_built"
    /\ node_order' \in Orders(G.nodes)
    /\ \/ /\ DOMAIN G.edges = {}
          /\ partition' = <<>>
       \/ /\ DOMAIN G.edges # {}
          /\ \E P \in BestPartitions(G) :
                partition' = PartitionItems(P, node_order')
    /\ pc' = "analyze_clusters"
    /\ UNCHANGED <<communities, results, saving, new_cluster_id, to_tag, conn, db>>
    /\ UNCHANGED <<triVars, graphVars, anaVars, mtxVars, migVars>>

\* clusters[cluster_id]: the nodes of the items of that id, in their order.
RECURSIVE MembersOf(_, _)
MembersOf(items, cluster_id) ==
    IF items = <<>> THEN <<>>
    ELSE (IF Head(items)[2] = cluster_id THEN <<Head(items)[1]>> ELSE <<>>)
           \o MembersOf(Tail(items), cluster_id)

\* clusters.keys(): the ids in the order in which the items bring them.
RECURSIVE ClusterKeys(_, _)
ClusterKeys(items, seen) ==
    IF items = <<>> THEN <<>>
    ELSE (IF Head(items)[2] \in seen THEN <<>> ELSE <<Head(items)[2]>>)
           \o ClusterKeys(Tail(items), seen \cup {Head(items)[2]})

\* sorted(clusters.keys(), key=lambda c: -len(clusters[c])): stable.
RECURSIVE InsertByMembers(_, _, _)
InsertByMembers(sorted, c, items) ==
    IF sorted = <<>> THEN <<c>>
    ELSE IF Len(MembersOf(items, Head(sorted))) >= Len(MembersOf(items, c))
         THEN <<Head(sorted)>> \o InsertByMembers(Tail(sorted), c, items)
         ELSE <<c>> \o sorted

RECURSIVE SortedByMembers(_, _)
SortedByMembers(ks, items) ==
    IF ks = <<>> THEN <<>>
    ELSE InsertByMembers(SortedByMembers(SubSeq(ks, 1, Len(ks) - 1), items),
                         ks[Len(ks)], items)

\* sides[s]: how many of the members have match_side s.
SideCount(members, s) ==
    Cardinality({i \in DOMAIN members : dna_match[members[i]].side = s})

\* max(sides.keys(), key=lambda s: sides[s]) if sides else 'unknown': of the
\* sides with the greatest count the one that entered the dict first, which
\* is the one of the earliest member.
DominantSide(members) ==
    IF members = <<>> THEN "unknown"
    ELSE LET i == CHOOSE k \in DOMAIN members :
                     /\ \A j \in DOMAIN members :
                           SideCount(members, dna_match[members[k]].side)
                              >= SideCount(members, dna_match[members[j]].side)
                     /\ \A j \in 1..(k - 1) :
                           SideCount(members, dna_match[members[j]].side)
                              < SideCount(members, dna_match[members[k]].side)
         IN dna_match[members[i]].side

\* total_cm of the members.
RECURSIVE TotalCm(_)
TotalCm(members) ==
    IF members = <<>> THEN 0
    ELSE dna_match[Head(members)].cm + TotalCm(Tail(members))

\* analyze_clusters(G, partition, matches): one result for each cluster,
\* the largest first (avg_cm is total_cm / size; sides and top_members are
\* only printed).  main then saves the results when --save is given.
AnalyzeClusters ==
    /\ pc = "analyze_clusters"
    /\ results' =
          LET ks == SortedByMembers(ClusterKeys(partition, {}), partition)
          IN [n \in DOMAIN ks |->
                LET members == MembersOf(partition, ks[n])
                IN [cluster_id |-> ks[n],
                    size |-> Len(members),
                    total_cm |-> TotalCm(members),
                    dominant_side |-> DominantSide(members),
                    members |-> members]]
    /\ \/ pc' = "save_clusters_to_db"
       \/ pc' = "main_done"
    /\ UNCHANGED <<node_order, communities, partition, saving, new_cluster_id,
                   to_tag, conn, db>>
    /\ UNCHANGED <<triVars, graphVars, anaVars, mtxVars, migVars>>

\* save_clusters_to_db(results): sqlite3.connect.  The connection sees the
\* committed tables; what it writes is in a transaction that sqlite3 opens
\* before the first INSERT and that only conn.commit() ends.
SaveConnect ==
    /\ pc = "save_clusters_to_db"
    /\ conn' = db
    /\ saving' = results
    /\ to_tag' = <<>>
    /\ pc' = "save_for"
    /\ UNCHANGED <<node_order, communities, partition, results, new_cluster_id, db>>
    /\ UNCHANGED <<triVars, graphVars, anaVars, mtxVars, migVars>>

\* cursor.lastrowid after an INSERT into cluster: one more than the
\* greatest id of the table.
LastRowId(tables) ==
    IF tables.cluster = {} THEN 1
    ELSE 1 + (CHOOSE i \in {c.id : c \in tables.cluster} :
                 \A c \in tables.cluster : i >= c.id)

\* Mutant: every statement is committed as it is executed.
WriteThrough(tables, after) == after

\* What is committed while the transaction is open: what was before.
Committed(tables, after) == tables

\* for r in results: INSERT INTO cluster and new_cluster_id = lastrowid.
SaveInsertCluster ==
    /\ pc = "save_for"
    /\ to_tag = <<>>
    /\ saving # <<>>
    /\ LET r == Head(saving)
       IN /\ new_cluster_id' = LastRowId(conn)
          /\ conn' = [conn EXCEPT !.cluster =
                        @ \cup {[id |-> LastRowId(conn),
                                 description |-> <<r.cluster_id, r.size,
                                                   r.dominant_side>>]}]
          /\ to_tag' = r.members
    /\ saving' = Tail(saving)
    /\ db' = Committed(db, conn')
    /\ UNCHANGED <<pc, node_order, communities, partition, results>>
    /\ UNCHANGED <<triVars, graphVars, anaVars, mtxVars, migVars>>

\* for match_id in r['members']: UPDATE dna_match SET cluster_id.
SaveUpdateMatch ==
    /\ pc = "save_for"
    /\ to_tag # <<>>
    /\ conn' = [conn EXCEPT !.cluster_id[Head(to_tag)] = new_cluster_id]
    /\ to_tag' = Tail(to_tag)
    /\ db' = Committed(db, conn')
    /\ UNCHANGED <<pc, node_order, communities, partition, results, saving,
                   new_cluster_id>>
    /\ UNCHANGED <<triVars, graphVars, anaVars, mtxVars, migVars>>

\* conn.commit() and conn.close()
SaveCommit ==
    /\ pc = "save_for"
    /\ to_tag = <<>>
    /\ saving = <<>>
    /\ db' = conn
    /\ pc' = "saved"
    /\ UNCHANGED <<node_order, communities, partition, results, saving,
                   new_cluster_id, to_tag, conn>>
    /\ UNCHANGED <<triVars, graphVars, anaVars, mtxVars, migVars>>

\* The run is stopped before conn.commit(): the connection is gone and its
\* open transaction with it.
SaveInterrupt ==
    /\ pc = "save_for"
    /\ conn' = <<>>
    /\ pc' = "interrupted"
    /\ UNCHANGED <<node_order, communities, partition, results, saving,
                   new_cluster_id, to_tag, db>>
    /\ UNCHANGED <<triVars, graphVars, anaVars, mtxVars, migVars>>

\* ---------------------------------------------------------- initial rows

\* The display name of dna_match row id; with namesake set the last row
\* has the name of the first.
NameOf(id, namesake) ==
    IF namesake /\ id = NumMatches THEN "P1"
    ELSE CASE id = 1 -> "P1" [] id = 2 -> "P2" [] id = 3 -> "P3"
           [] id = 4 -> "P4" [] OTHER -> "P5"

\* The rows an earlier import left in shared_match: none, or the two matches
\* named P1 and P2 found on each other's shared-match page at 25 cM.
EarlierImports ==
    {{}, {<<1, 2, 25, "P2">>, <<2, 1, 25, "P1">>}}

\* cluster_matches.py run after the shared-match imports: dna_match holds
\* NumMatches rows, possibly two of one name and one below --min-cm, and
\* shared_match what an earlier import left.
StoreInit ==
    /\ pc = "import_shared_matches"
    /\ \E namesake \in BOOLEAN, low \in {10, 50} :
          dna_match = [id \in Ids |->
                         [name |-> NameOf(id, namesake),
                          cm |-> IF id = 2 THEN low ELSE 50]]
    /\ shared_match \in EarlierImports
    /\ submitted = {<<r[1], r[2], r[3]>> : r \in shared_match}
    /\ nsaved = 0
    /\ ancestry_person = {}
    /\ ancestry_match = {}
    /\ graph_min_cm = 0
    /\ people = {}
    /\ edges = {}
    /\ G = EmptyGraph
    /\ min_group_size = 3
    /\ TriLocalsIdle
    /\ AnaIdle
    /\ MtxIdle
    /\ CommIdle
    /\ MigIdle

\* The rows of ancestry_match: migrate_to_ancestry_graph.py writes them with
\* person1_id <= person2_id, one row for each pair (its ON CONFLICT target),
\* both ends being rows of ancestry_person (its foreign keys).
PairRows == {r \in Ids \X Ids \X {NullInt, 10, 30} : r[1] <= r[2]}

\* dna_clustering.py: ancestry_person holds NumMatches rows and
\* ancestry_match at most MaxRows rows.
ClusteringInit ==
    /\ pc = "build_graph"
    /\ submitted = {}
    /\ nsaved = 0
    /\ ancestry_person = Ids
    /\ ancestry_match \in {rows \in SubsetsUpTo(PairRows, MaxRows) :
                              OneRowPerPair(rows)}
    /\ graph_min_cm \in {0, 20}
    /\ people = {}
    /\ edges = {}
    /\ G = EmptyGraph
    /\ dna_match = <<>>
    /\ shared_match = {}
    /\ min_group_size = 3
    /\ TriLocalsIdle
    /\ AnaIdle
    /\ MtxIdle
    /\ CommIdle
    /\ MigIdle

GraphInit == StoreInit \/ ClusteringInit

GraphNext ==
    \/ SaveSharedMatches
    \/ ScanSharedMatches
    \/ BuildSharedMatchGraph
    \/ SharedAddEdge
    \/ SharedBuilt
    \/ BuildGraph
    \/ GraphAddEdge
    \/ GraphBuilt

SpecGraph == GraphInit /\ [][GraphNext]_vars

\* ----------------------------------------------------------------------
\* Properties of the graph builders
\* ----------------------------------------------------------------------

Built == pc \in {"shared_built", "graph_built"}

\* The two ends of a row, as the key of the edge it makes.
Ends(r) == {r[1], r[2]}

\* C7: build_shared_match_graph never includes an unknown weight: every edge
\* it retains weighs at least min_shared_cm, and two listed nodes are joined
\* exactly when a row between them has a known weight >= min_shared_cm.
\* build_graph always includes unknown weights: two people are joined exactly
\* when a row between them has weight >= min_cm or no weight, and a retained
\* edge weighs less than min_cm only when its row has no weight; a row of
\* known weight below the threshold makes no edge.
C7_ThresholdedEdges ==
    /\ pc = "shared_built" =>
          /\ \A k \in DOMAIN G.edges : G.edges[k] >= min_shared_cm
          /\ \A u, v \in people :
                HasEdge(G, u, v) <=>
                    \E r \in shared_match :
                        Ends(r) = {u, v} /\ r[3] # NullInt /\ r[3] >= min_shared_cm
    /\ pc = "graph_built" =>
          /\ \A u, v \in Ids :
                HasEdge(G, u, v) <=>
                    \E r \in ancestry_match :
                        Ends(r) = {u, v} /\ (r[3] = NullInt \/ r[3] >= graph_min_cm)
          /\ \A k \in DOMAIN G.edges :
                G.edges[k] < graph_min_cm =>
                    \E r \in ancestry_match : Ends(r) = k /\ r[3] = NullInt
          /\ \A r \in ancestry_match :
                (r[3] # NullInt /\ r[3] < graph_min_cm) => ~HasEdge(G, r[1], r[2])

\* With min_cm = 20, build_graph was fed a row of 10 cM, a row of 30 cM and a
\* row of unknown weight: the first made no edge, the others did.
C7_Witness ==
    /\ pc = "graph_built"
    /\ graph_min_cm = 20
    /\ \E lo, hi, un \in ancestry_match :
          /\ lo[3] = 10 /\ ~HasEdge(G, lo[1], lo[2])
          /\ hi[3] = 30 /\ HasEdge(G, hi[1], hi[2]) /\ G.edges[Ends(hi)] = 30
          /\ un[3] = NullInt /\ HasEdge(G, un[1], un[2]) /\ G.edges[Ends(un)] = 0

\* The largest element of a non-empty set of numbers.
MaxOf(S) == CHOOSE x \in S : \A y \in S : y <= x

\* The known weights handed to the writers for the pair k, in either direction.
SubmittedFor(k) == {e[3] : e \in {x \in submitted : Ends(x) = k /\ x[3] # NullInt}}

\* C8: the weight kept for a pair of people is the maximum of all the weights
\* submitted for that pair, in either direction and whatever the order.
C8_MaxOfSubmitted ==
    pc = "shared_built" =>
        \A k \in DOMAIN G.edges :
            Cardinality(k) = 2 => G.edges[k] = MaxOf(SubmittedFor(k))

\* The fetched rows that reference a person absent from the node list.
AbsentEndRows ==
    {r \in shared_match :
        /\ r[2] # NullInt
        /\ r[3] # NullInt
        /\ r[3] >= min_shared_cm
        /\ (r[1] \notin people \/ r[2] \notin people)}

\* The counts build_shared_match_graph takes: len(matches), len(edges).
BuilderCounts ==
    {Cardinality(SharedMatchNodes), Cardinality(SharedMatchEdges(SharedMatchNodes))}

\* The nodes of the built graph are the node list and every edge joins two
\* listed nodes.
NodesAreNodeList ==
    /\ G.nodes = people
    /\ \A k \in DOMAIN G.edges : k \subseteq people

C10_SimpleGraph ==
    \A k \in DOMAIN G.edges :
        /\ Cardinality(k) = 2
        /\ Cardinality({j \in DOMAIN G.edges : j = k}) = 1

\* ======================================================================
\* scripts/generate_cluster_matrix.py
\* ======================================================================

\* args.mrca
mrca == "UNK-PAT"

\* get_cluster_matches(cursor, mrca): the ids of the rows of that MRCA,
\* ORDER BY shared_cm DESC (SQLite puts NULL last; equal values by rowid).
RECURSIVE OrderByCmDesc(_)
OrderByCmDesc(S) ==
    IF S = {} THEN <<>>
    ELSE LET m == CHOOSE x \in S : \A y \in S :
                     \/ dna_match[x].cm > dna_match[y].cm
                     \/ dna_match[x].cm = dna_match[y].cm /\ x <= y
         IN <<m>> \o OrderByCmDesc(S \ {m})

GetClusterMatches == OrderByCmDesc({id \in Ids : dna_match[id].mrca = mrca})

\* get_shared_matches(cursor, match_ids): the rows between two of the ids,
\* entered in both directions.
GetSharedMatches(match_ids) ==
    IF match_ids = {} THEN <<>>
    ELSE LET rows == {r \in shared_match : r[1] \in match_ids /\ r[2] \in match_ids}
             ends == {r[1] : r \in rows} \cup {r[2] : r \in rows}
         IN [m \in ends |-> {r[2] : r \in {x \in rows : x[1] = m}}
                              \cup {r[1] : r \in {x \in rows : x[2] = m}}]

\* main: the two queries and the start of cluster_matches_by_shared; nothing
\* more is done when the MRCA has no match.
MatrixMain ==
    /\ pc = "get_cluster_matches"
    /\ matches' = GetClusterMatches
    /\ \/ /\ matches' = <<>>
          /\ pc' = "main_done"
          /\ UNCHANGED <<shared, mids, visited, clusters>>
       \/ /\ matches' # <<>>
          /\ shared' = GetSharedMatches(Range(matches'))
          /\ mids' = matches'
          /\ visited' = {}
          /\ clusters' = <<>>
          /\ pc' = "cluster_for"
    /\ UNCHANGED <<cluster, result, queue>>
    /\ UNCHANGED <<dna_match, shared_match, min_group_size, target_matches,
                   triangulation_edges, keys, groups, component, todo,
                   unknown_father_groups, known_paternal_groups,
                   known_maternal_groups, mixed_groups>>
    /\ UNCHANGED <<graphVars, anaVars, commVars, migVars>>

\* adj[mid] = shared.get(mid, set()) & set(match_ids)
MatrixAdj(mid) ==
    (IF mid \in DOMAIN shared THEN shared[mid] ELSE {}) \cap Range(matches)

\* for mid in match_ids: one iteration up to the BFS loop.
ClusterFor ==
    /\ pc = "cluster_for"
    /\ mids # <<>>
    /\ mids' = Tail(mids)
    /\ LET mid == Head(mids)
       IN \/ /\ mid \in visited
             /\ UNCHANGED <<cluster, queue, pc>>
          \/ /\ mid \notin visited
             /\ cluster' = <<>>
             /\ queue' = <<mid>>
             /\ pc' = "cluster_bfs"
    /\ UNCHANGED <<matches, shared, clusters, result, visited>>
    /\ UNCHANGED <<dna_match, shared_match, min_group_size, target_matches,
                   triangulation_edges, keys, groups, component, todo,
                   unknown_father_groups, known_paternal_groups,
                   known_maternal_groups, mixed_groups>>
    /\ UNCHANGED <<graphVars, anaVars, commVars, migVars>>

\* while queue: one iteration.
ClusterBfsStep ==
    /\ pc = "cluster_bfs"
    /\ queue # <<>>
    /\ LET current == Head(queue)
       IN \/ /\ current \in visited
             /\ queue' = Tail(queue)
             /\ UNCHANGED <<visited, cluster>>
          \/ /\ current \notin visited
             /\ visited' = visited \cup {current}
             /\ cluster' = Append(cluster, current)
             /\ queue' = Tail(queue)
                           \o SetToSeq({neighbor \in MatrixAdj(current) :
                                           neighbor \notin visited'})
    /\ UNCHANGED <<pc, matches, shared, mids, clusters, result>>
    /\ UNCHANGED <<dna_match, shared_match, min_group_size, target_matches,
                   triangulation_edges, keys, groups, component, todo,
                   unknown_father_groups, known_paternal_groups,
                   known_maternal_groups, mixed_groups>>
    /\ UNCHANGED <<graphVars, anaVars, commVars, migVars>>

\* clusters.append(cluster)
ClusterBfsDone ==
    /\ pc = "cluster_bfs"
    /\ queue = <<>>
    /\ clusters' = Append(clusters, cluster)
    /\ pc' = "cluster_for"
    /\ UNCHANGED <<matches, shared, mids, cluster, result>>
    /\ UNCHANGED <<triVars, graphVars, anaVars, commVars, migVars>>

\* m[2] or 0
CmOrZero(mid) == IF dna_match[mid].cm = NullInt THEN 0 ELSE dna_match[mid].cm

\* cluster_cm(c)
RECURSIVE cluster_cm(_)
cluster_cm(c) ==
    IF c = <<>> THEN 0 ELSE CmOrZero(Head(c)) + cluster_cm(Tail(c))

\* clusters.sort(key=cluster_cm, reverse=True): stable, greatest first.
RECURSIVE InsertByClusterCm(_, _)
InsertByClusterCm(sorted, c) ==
    IF sorted = <<>> THEN <<c>>
    ELSE IF cluster_cm(Head(sorted)) >= cluster_cm(c)
         THEN <<Head(sorted)>> \o InsertByClusterCm(Tail(sorted), c)
         ELSE <<c>> \o sorted

RECURSIVE SortedByClusterCm(_)
SortedByClusterCm(cs) ==
    IF cs = <<>> THEN <<>>
    ELSE InsertByClusterCm(SortedByClusterCm(SubSeq(cs, 1, Len(cs) - 1)),
                           cs[Len(cs)])

\* cluster_matches.sort(key=lambda m: m[2] or 0, reverse=True)
RECURSIVE InsertByCm(_, _)
InsertByCm(sorted, mid) ==
    IF sorted = <<>> THEN <<mid>>
    ELSE IF CmOrZero(Head(sorted)) >= CmOrZero(mid)
         THEN <<Head(sorted)>> \o InsertByCm(Tail(sorted), mid)
         ELSE <<mid>> \o sorted

RECURSIVE SortedByCm(_)
SortedByCm(c) ==
    IF c = <<>> THEN <<>>
    ELSE InsertByCm(SortedByCm(SubSeq(c, 1, Len(c) - 1)), c[Len(c)])

\* The two sorts and return result.
ClusterReturn ==
    /\ pc = "cluster_for"
    /\ mids = <<>>
    /\ result' = LET s == SortedByClusterCm(clusters)
                 IN [k \in DOMAIN s |-> SortedByCm(s[k])]
    /\ pc' = "matrix_done"
    /\ UNCHANGED <<matches, shared, mids, cluster, clusters>>
    /\ UNCHANGED <<triVars, graphVars, anaVars, commVars, migVars>>

\* ---------------------------------------------------------- initial rows

\* shared_cm of dna_match row id: row 3 has none.
MatchCm(id) == IF id = 3 THEN NullInt ELSE 20 + 10 * id

\* generate_cluster_matrix.py: each row of dna_match is of the MRCA asked
\* for or of another, and shared_match holds at most MaxRows rows.
MatrixInit ==
    /\ pc = "get_cluster_matches"
    /\ \E of_mrca \in SUBSET Ids :
          dna_match = [id \in Ids |->
                         [cm |-> MatchCm(id),
                          mrca |-> IF id \in of_mrca THEN mrca ELSE "32-63"]]
    /\ shared_match \in {rows \in SubsetsUpTo({r \in FreeRows : r[3] = 25}, MaxRows) :
                            OneRowPerPair(rows)}
    /\ min_group_size = 3
    /\ TriLocalsIdle
    /\ GraphIdle
    /\ AnaIdle
    /\ MtxIdle
    /\ CommIdle
    /\ MigIdle

\* Scenario C: the rows of ancestry_person, ancestry_match being empty.
ScenarioCNodes == 1..5

\* The rows of ancestry_match the analysis is run on: those of 30 cM and one
\* below --min-cm.
AnalysisRows == {r \in PairRows : r[3] = 30} \cup {<<1, 2, 10>>}

\* The arguments the analysis is run with: <<--min-size, max_cliques>>, the
\* defaults of main among them.
AnalysisArgs == {<<1, 100>>, <<1, 1>>, <<2, 0>>, <<3, 100>>}

\* dna_clustering.py with its analysis: ancestry_match holds at most MaxRows
\* rows of known weight, one of them below --min-cm; or the tables are those
\* of Scenario C.
AnalysisInit ==
    /\ pc = "build_graph"
    /\ submitted = {}
    /\ nsaved = 0
    /\ \/ /\ ancestry_person = Ids
          /\ ancestry_match \in {rows \in SubsetsUpTo(AnalysisRows, MaxRows) :
                                     OneRowPerPair(rows)}
          /\ \E args \in AnalysisArgs :
                /\ min_size = args[1]
                /\ max_cliques = args[2]
       \/ /\ ancestry_person = ScenarioCNodes
          /\ ancestry_match = {}
          /\ min_size \in {1, 2}
          /\ max_cliques \in {5, 100}
    /\ graph_min_cm = 20
    /\ people = {}
    /\ edges = {}
    /\ G = EmptyGraph
    /\ components = <<>>
    /\ components_sorted = <<>>
    /\ clique_iter = {}
    /\ cliques = <<>>
    /\ cliques_sorted = <<>>
    /\ dna_match = <<>>
    /\ shared_match = {}
    /\ min_group_size = 3
    /\ TriLocalsIdle
    /\ MtxIdle
    /\ CommIdle
    /\ MigIdle

AnalysisNext ==
    \/ BuildGraph
    \/ GraphAddEdge
    \/ GraphBuilt
    \/ AnalyzeComponents
    \/ FindCommunities
    \/ PrintCommunities
    \/ FindCliquesStart
    \/ FindCliquesStep
    \/ FindCliquesReturn
    \/ PrintCliques
    \/ MatrixMain
    \/ ClusterFor
    \/ ClusterBfsStep
    \/ ClusterBfsDone
    \/ ClusterReturn

SpecAnalysis == (AnalysisInit \/ MatrixInit) /\ [][AnalysisNext]_vars

\* ------------------------------------------------- community detection

\* match_side of dna_match row id as the importers write it, one list for
\* each way the sides are spread: all paternal, odd rows paternal and even
\* rows maternal, or no side data but for the first row.
SideLists ==
    {[id \in Ids |-> "paternal"],
     [id \in Ids |-> IF id % 2 = 1 THEN "paternal" ELSE "maternal"],
     [id \in Ids |-> IF id = 1 THEN "maternal" ELSE "unknown"]}

\* The tables an earlier run with --save left: one cluster, row 1 tagged
\* with it.
EarlierClusters ==
    [cluster |-> {[id |-> 1, description |-> <<0, 1, "paternal">>]},
     cluster_id |-> [id \in Ids |-> IF id = 1 THEN 1 ELSE NullInt]]

\* cluster_matches.py: every row of dna_match is above --min-cm;
\* shared_match holds both directions of at most MaxRows pairs at 25 cM and
\* possibly a row of match 3 with somebody who is no match.
CommClusterInit ==
    /\ pc = "cluster_matches"
    /\ \E side \in SideLists :
          dna_match = [id \in Ids |->
                         [name |-> NameOf(id, FALSE), cm |-> 20 + 10 * id,
                          side |-> side[id]]]
    /\ \E pairs \in SubsetsUpTo(UnorderedPairs, MaxRows), lone \in {{}, {3}} :
          shared_match = SymmetricRows(pairs) \cup {<<id, NullInt, 25>> : id \in lone}
    /\ submitted = {}
    /\ nsaved = 0
    /\ ancestry_person = {}
    /\ ancestry_match = {}
    /\ graph_min_cm = 0
    /\ people = {}
    /\ edges = {}
    /\ G = EmptyGraph
    /\ min_group_size = 3
    /\ TriLocalsIdle
    /\ AnaIdle
    /\ MtxIdle
    /\ MigIdle
    /\ node_order = <<>>
    /\ communities = <<>>
    /\ partition = <<>>
    /\ results = <<>>
    /\ saving = <<>>
    /\ new_cluster_id = NullInt
    /\ to_tag = <<>>
    /\ conn = <<>>
    /\ db = EarlierClusters

CommNext ==
    \/ ImportModules
    \/ BuildSharedMatchGraph
    \/ SharedAddEdge
    \/ SharedBuilt
    \/ DetectCommunities
    \/ AnalyzeClusters
    \/ SaveConnect
    \/ SaveInsertCluster
    \/ SaveUpdateMatch
    \/ SaveCommit
    \/ SaveInterrupt
    \/ BuildGraph
    \/ GraphAddEdge
    \/ GraphBuilt
    \/ AnalyzeComponents
    \/ FindCommunities
    \/ PrintCommunities

SpecComm == (CommClusterInit \/ AnalysisInit) /\ [][CommNext]_vars

\* ----------------------------------------------------------------------
\* scripts/migrate_to_ancestry_graph.py
\* ----------------------------------------------------------------------

\* The ancestry ids are compared as sorted() compares the strings: the id of
\* the test-taker lies after that of some matches and before that of others.
CHRIS_ANCESTRY_ID == 20

CHRIS_PERSON_ID == 1000

\* The test-taker another kit's matches belong to.
OtherPersonId == 2000

\* The ancestry_id of the match of SQLite row id: 10, 30, 50, ...
AncestryIdOf(id) == 20 * id - 10

\* generate_synthetic_id(name): an id made from the name, no match's id.
generate_synthetic_id(name) ==
    IF \E id \in Ids : NameOf(id, FALSE) = name
    THEN 100 + (CHOOSE id \in Ids : NameOf(id, FALSE) = name)
    ELSE 100

\* p1, p2 = sorted([a, b])
SortedPair(a, b) == IF a <= b THEN <<a, b>> ELSE <<b, a>>

\* GREATEST(a, b) of PostgreSQL: NULL only when both are NULL.
Greatest(a, b) ==
    IF a = NullInt THEN b
    ELSE IF b = NullInt THEN a
    ELSE IF a >= b THEN a ELSE b

\* INSERT INTO ancestry_match ... ON CONFLICT (person1_id, person2_id)
\* DO UPDATE SET shared_cm = COALESCE(EXCLUDED.shared_cm, ancestry_match.shared_cm)
InsertCoalesce(table, p, cm) ==
    LET old == {r \in table : r[1] = p[1] /\ r[2] = p[2]}
    IN IF old = {} THEN table \cup {<<p[1], p[2], cm>>}
       ELSE (table \ old) \cup {<<p[1], p[2], Coalesce(cm, r[3])>> : r \in old}

\* INSERT INTO ancestry_match ... ON CONFLICT (person1_id, person2_id)
\* DO UPDATE SET shared_cm = GREATEST(ancestry_match.shared_cm, EXCLUDED.shared_cm)
InsertGreatest(table, p, cm) ==
    LET old == {r \in table : r[1] = p[1] /\ r[2] = p[2]}
    IN IF old = {} THEN table \cup {<<p[1], p[2], cm>>}
       ELSE (table \ old) \cup {<<p[1], p[2], Greatest(r[3], cm)>> : r \in old}

\* psycopg2.errors.ForeignKeyViolation: an end of the edge is no row of
\* ancestry_person.
ForeignKeyViolation(persons, p) == ~(p[1] \in persons /\ p[2] \in persons)

\* STEP 1: the test-taker and every dna_match row of PostgreSQL with an
\* ancestry_id become rows of ancestry_person.
MigrateDnaMatchToAncestryPerson ==
    /\ pc = "migrate_dna_match_to_ancestry_person"
    /\ ancestry_person' = ancestry_person \cup {CHRIS_ANCESTRY_ID}
                            \cup {r.ancestry_id : r \in {m \in pg_dna_match :
                                                           m.ancestry_id # NullInt}}
    /\ pc' = "create_you_to_match_edges"
    /\ UNCHANGED <<triVars, submitted, nsaved, ancestry_match, graph_min_cm,
                   people, edges, G, anaVars, mtxVars, commVars, migVars>>

RECURSIVE YouToMatchEdges(_, _)
\* The loop of create_you_to_match_edges over the fetched rows.
YouToMatchEdges(rows, table) ==
    IF rows = {} THEN table
    ELSE LET m == CHOOSE r \in rows : TRUE
         IN YouToMatchEdges(rows \ {m},
                InsertCoalesce(table, SortedPair(CHRIS_ANCESTRY_ID, m.ancestry_id),
                               m.shared_cm))

\* STEP 2: an edge from the test-taker to each of his matches.
CreateYouToMatchEdges ==
    /\ pc = "create_you_to_match_edges"
    /\ ancestry_match' =
           YouToMatchEdges({m \in pg_dna_match :
                               /\ m.ancestry_id # NullInt
                               /\ m.matched_to_person_id = CHRIS_PERSON_ID},
                           ancestry_match)
    /\ pc' = "build_sqlite_id_map"
    /\ UNCHANGED <<triVars, submitted, nsaved, ancestry_person, graph_min_cm,
                   people, edges, G, anaVars, mtxVars, commVars, migVars>>

\* The rows of SQLite's dna_match WHERE ancestry_id IS NOT NULL.
WithAncestryId == {id \in Ids : dna_match[id].ancestry_id # NullInt}

\* STEP 3: {row[0]: row[1]} and {row[2]: row[1]} over those rows, the last
\* row of a name winning.
BuildSqliteIdMap ==
    /\ pc = "build_sqlite_id_map"
    /\ id_to_ancestry' = [id \in WithAncestryId |-> dna_match[id].ancestry_id]
    /\ \E last \in [{dna_match[id].name : id \in WithAncestryId} -> WithAncestryId] :
          /\ \A n \in DOMAIN last : dna_match[last[n]].name = n
          /\ name_to_ancestry' = [n \in DOMAIN last |-> dna_match[last[n]].ancestry_id]
    /\ pc' = "migrate_shared_matches"
    /\ UNCHANGED <<triVars, graphVars, anaVars, mtxVars, commVars,
                   pg_dna_match, missing_people>>

\* The lookup of match2: by id, else by name, else NULL.
Ancestry2(r) ==
    IF r[2] # NullInt /\ r[2] \in DOMAIN id_to_ancestry THEN id_to_ancestry[r[2]]
    ELSE IF r[4] \in DOMAIN name_to_ancestry THEN name_to_ancestry[r[4]]
    ELSE NullInt

\* missing_people[name] = id
SetItem(d, k, v) == [x \in DOMAIN d \cup {k} |-> IF x = k THEN v ELSE d[x]]

RECURSIVE MigrateRows(_, _, _, _)
\* The loop of migrate_shared_matches over the rows of shared_match, in the
\* order they were fetched: table is ancestry_match as the open transaction
\* sees it, committed what the last commit left and a rollback restores.
MigrateRows(rows, table, committed, missing) ==
    IF rows = <<>> THEN [table |-> table, missing |-> missing]
    ELSE LET r == Head(rows)
             known == Ancestry2(r)
             named == IF known = NullInt /\ r[4] \notin DOMAIN missing
                      THEN SetItem(missing, r[4], generate_synthetic_id(r[4]))
                      ELSE missing
             ancestry2 == IF known = NullInt THEN named[r[4]] ELSE known
         IN IF r[1] \notin DOMAIN id_to_ancestry
            THEN MigrateRows(Tail(rows), table, committed, missing)
            ELSE LET p == SortedPair(id_to_ancestry[r[1]], ancestry2)
                 IN IF ForeignKeyViolation(ancestry_person, p)
                    THEN MigrateRows(Tail(rows), committed, committed,
                                     IF ancestry2 \in Range(named) THEN named
                                     ELSE SetItem(named, r[4], ancestry2))
                    ELSE MigrateRows(Tail(rows), InsertGreatest(table, p, r[3]),
                                     committed, named)

\* STEP 4: the edges of shared_match, first pass, and the commit after it.
MigrateSharedMatches ==
    /\ pc = "migrate_shared_matches"
    /\ \E shared_matches \in Orders(shared_match) :
          LET done == MigrateRows(shared_matches, ancestry_match, ancestry_match, <<>>)
          IN /\ ancestry_match' = done.table
             /\ missing_people' = done.missing
    /\ pc' = "create_missing_person_nodes"
    /\ UNCHANGED <<triVars, submitted, nsaved, ancestry_person, graph_min_cm,
                   people, edges, G, anaVars, mtxVars, commVars,
                   pg_dna_match, id_to_ancestry, name_to_ancestry>>

\* STEP 5: a row of ancestry_person for each of missing_people.
CreateMissingPersonNodes ==
    /\ pc = "create_missing_person_nodes"
    /\ ancestry_person' = ancestry_person \cup Range(missing_people)
    /\ pc' = "retry_failed_edges"
    /\ UNCHANGED <<triVars, submitted, nsaved, ancestry_match, graph_min_cm,
                   people, edges, G, anaVars, mtxVars, commVars, migVars>>

RECURSIVE RetryRows(_, _, _)
\* The loop of retry_failed_edges.  A statement that fails leaves the
\* transaction aborted, no rollback following it: every later statement
\* fails as well, each failure passed over.
RetryRows(rows, table, aborted) ==
    IF rows = <<>> THEN [table |-> table, aborted |-> aborted]
    ELSE LET r == Head(rows)
             ancestry2 == IF Ancestry2(r) # NullInt THEN Ancestry2(r)
                          ELSE IF r[4] \in DOMAIN missing_people
                               THEN missing_people[r[4]]
                               ELSE NullInt
         IN IF r[1] \notin DOMAIN id_to_ancestry \/ ancestry2 = NullInt \/ aborted
            THEN RetryRows(Tail(rows), table, aborted)
            ELSE LET p == SortedPair(id_to_ancestry[r[1]], ancestry2)
                 IN IF ForeignKeyViolation(ancestry_person, p)
                    THEN RetryRows(Tail(rows), table, TRUE)
                    ELSE RetryRows(Tail(rows), InsertGreatest(table, p, r[3]), FALSE)

\* STEP 6: the edges of shared_match, second pass, and the commit after it,
\* which ends an aborted transaction without keeping anything of it.
RetryFailedEdges ==
    /\ pc = "retry_failed_edges"
    /\ \E shared_matches \in Orders(shared_match) :
          LET done == RetryRows(shared_matches, ancestry_match, FALSE)
          IN ancestry_match' = IF done.aborted THEN ancestry_match ELSE done.table
    /\ pc' = "fix_chris_edge_weights"
    /\ UNCHANGED <<triVars, submitted, nsaved, ancestry_person, graph_min_cm,
                   people, edges, G, anaVars, mtxVars, commVars, migVars>>

\* fix_chris_edge_weights left out: every row as it is.
KeepChrisEdgeWeights(table) == table

\* UPDATE ancestry_match SET shared_cm = cm WHERE person1_id = p1 AND
\* person2_id = p2, for each row of SQLite's dna_match with an ancestry_id
\* and a shared_cm, (p1, p2) being the sorted pair of it and the test-taker.
FixChrisEdgeWeightsIn(table) ==
    LET correct(r) == {id \in WithAncestryId :
                          /\ dna_match[id].cm # NullInt
                          /\ SortedPair(CHRIS_ANCESTRY_ID, dna_match[id].ancestry_id)
                               = <<r[1], r[2]>>}
    IN {IF correct(r) = {} THEN r
        ELSE <<r[1], r[2], dna_match[CHOOSE id \in correct(r) : TRUE].cm>> :
        r \in table}

\* STEP 7: the weights of the test-taker's edges restored.
FixChrisEdgeWeights ==
    /\ pc = "fix_chris_edge_weights"
    /\ ancestry_match' = FixChrisEdgeWeightsIn(ancestry_match)
    /\ pc' = "verify_migration"
    /\ UNCHANGED <<triVars, submitted, nsaved, ancestry_person, graph_min_cm,
                   people, edges, G, anaVars, mtxVars, commVars, migVars>>

\* The rows of shared_match the migration is run on: the rows 1 and 2 on each
\* other's page at 25 or at 70 cM, somebody who is no match on the page of
\* row 1, row 3 there by name only, and row 1 on the page of row 3.
MigRows ==
    {<<1, 2, 25, "P2">>, <<1, 2, 70, "P2">>, <<2, 1, 25, "P1">>, <<2, 1, 70, "P1">>,
     <<1, NullInt, 25, "PX">>, <<1, NullInt, 30, "P3">>, <<3, 1, 30, "P1">>}

\* UNIQUE(match1_id, match2_name) of shared_match.
OneRowPerName(rows) ==
    \A r1, r2 \in rows : (r1[1] = r2[1] /\ r1[4] = r2[4]) => r1 = r2

\* The migration before step 1.  SQLite's dna_match: an ancestry_id is held
\* by one row at most (the importer skips an id it has); row 1 shares 50 cM
\* with the test-taker or has no shared_cm; row 2 is a match of its own or
\* the test-taker himself, listed among the matches; the last row may have
\* no ancestry_id.  PostgreSQL's dna_match has row 1 with any shared_cm and
\* the last row as a match of the test-taker or of another kit.
\* ancestry_match is empty or holds an edge of an earlier run.
MigrateInit ==
    /\ pc = "migrate_dna_match_to_ancestry_person"
    /\ \E self_listed \in BOOLEAN, cm1 \in {50, NullInt}, last \in BOOLEAN :
          dna_match = [id \in Ids |->
                         [ancestry_id |-> IF id = 2 /\ self_listed THEN CHRIS_ANCESTRY_ID
                                          ELSE IF id = NumMatches /\ ~last THEN NullInt
                                          ELSE AncestryIdOf(id),
                          name |-> NameOf(id, FALSE),
                          cm |-> IF id = 1 THEN cm1 ELSE 40]]
    /\ \E pg1 \in {NullInt, 50, 60}, kit \in {CHRIS_PERSON_ID, OtherPersonId} :
          pg_dna_match = {[ancestry_id |-> AncestryIdOf(1), shared_cm |-> pg1,
                           matched_to_person_id |-> CHRIS_PERSON_ID],
                          [ancestry_id |-> AncestryIdOf(NumMatches), shared_cm |-> 40,
                           matched_to_person_id |-> kit]}
    /\ shared_match \in {rows \in SubsetsUpTo(MigRows, MaxRows) : OneRowPerName(rows)}
    /\ \/ /\ ancestry_person = {}
          /\ ancestry_match = {}
       \/ /\ ancestry_person = {AncestryIdOf(1), CHRIS_ANCESTRY_ID}
          /\ ancestry_match = {<<AncestryIdOf(1), CHRIS_ANCESTRY_ID, 99>>}
    /\ submitted = {}
    /\ nsaved = 0
    /\ graph_min_cm = 0
    /\ people = {}
    /\ edges = {}
    /\ G = EmptyGraph
    /\ min_group_size = 3
    /\ TriLocalsIdle
    /\ AnaIdle
    /\ MtxIdle
    /\ CommIdle
    /\ id_to_ancestry = <<>>
    /\ name_to_ancestry = <<>>
    /\ missing_people = <<>>

MigrateNext ==
    \/ MigrateDnaMatchToAncestryPerson
    \/ CreateYouToMatchEdges
    \/ BuildSqliteIdMap
    \/ MigrateSharedMatches
    \/ CreateMissingPersonNodes
    \/ RetryFailedEdges
    \/ FixChrisEdgeWeights

SpecMigrate == MigrateInit /\ [][MigrateNext]_vars

\* ------------------------------------------------ the two groupings

\* build_triangulation_groups within find_unknown_father_matches.py and
\* cluster_matches_by_shared within generate_cluster_matrix.py.
GroupingNext ==
    \/ GetTriangulationData
    \/ ClassifyMatches
    \/ GroupsFor
    \/ BfsStep
    \/ BfsDone
    \/ GroupsReturn
    \/ AnalyzeNext
    \/ AnalyzeDone
    \/ MatrixMain
    \/ ClusterFor
    \/ ClusterBfsStep
    \/ ClusterBfsDone
    \/ ClusterReturn

\* The rows of shared_match the queries of the groupings select: between two
\* rows of dna_match and of min_shared at least; row 1 may be on its own
\* page.
GroupingRows == {r \in Ids \X Ids \X {25} : r[1] # r[2] \/ r[1] = 1}

\* The tables the groupings are run on.  find_unknown_father_matches.py:
\* every match is a paternal candidate without a linked tree (the trees play
\* no part in the grouping); generate_cluster_matrix.py: every row of
\* dna_match is of the MRCA asked for.  shared_match holds at most MaxRows
\* rows, in one direction or in both.
GroupingInit ==
    /\ \/ /\ pc = "get_triangulation_data"
          /\ min_group_size \in {1, 3}
          /\ dna_match = [id \in Ids |->
                            [cm |-> 50, side |-> "paternal", tree_id |-> NULL]]
       \/ /\ pc = "get_cluster_matches"
          /\ min_group_size = 3
          /\ dna_match = [id \in Ids |-> [cm |-> MatchCm(id), mrca |-> mrca]]
    /\ shared_match \in SubsetsUpTo(GroupingRows, MaxRows)
    /\ TriLocalsIdle
    /\ GraphIdle
    /\ AnaIdle
    /\ MtxIdle
    /\ CommIdle
    /\ MigIdle

\* Each program is one thread that runs on as long as it has a statement to
\* run.
SpecGrouping ==
    /\ GroupingInit
    /\ [][GroupingNext]_vars
    /\ WF_vars(GroupingNext)

\* ----------------------------------------------------------------------
\* Properties of the analyses
\* ----------------------------------------------------------------------

\* parts, a list of sets, partitions nodes: the parts cover nodes and no two
\* of them have a node in common.
Partition(parts, nodes) ==
    /\ UNION Range(parts) = nodes
    /\ \A i, j \in DOMAIN parts : i # j => parts[i] \cap parts[j] = {}

\* C4: the connected components returned for a graph partition its node set:
\* their union is the set of all nodes, isolated ones included, and they are
\* pairwise disjoint. This holds of nx.connected_components as
\* analyze_components calls it and of the clusters of
\* cluster_matches_by_shared, in which no match is listed twice.
C4_ComponentsPartitionNodes ==
    /\ pc \in {"find_cliques", "cliques_for", "cliques_done", "main_done"} =>
          /\ Partition(components, G.nodes)
          /\ Partition(components_sorted, G.nodes)
    /\ pc = "matrix_done" =>
          /\ Partition([k \in DOMAIN result |-> Range(result[k])], Range(matches))
          /\ \A k \in DOMAIN result :
                Cardinality(Range(result[k])) = Len(result[k])

\* analyze_components has returned a component of several nodes and an
\* isolated node as a component of its own.
C4_Witness ==
    /\ pc = "main_done"
    /\ \E i, j \in DOMAIN components :
          /\ Cardinality(components[i]) >= 2
          /\ Cardinality(components[j]) = 1
          /\ \A k \in DOMAIN G.edges : k \cap components[j] = {}

\* C6: every clique find_cliques returns is complete and maximal in G: any
\* two distinct members are joined by an edge and no node outside the clique
\* is adjacent to all its members.
C6_CliquesCompleteAndMaximal ==
    \A k \in DOMAIN cliques :
        LET Q == cliques[k].nodes
        IN /\ \A u, v \in Q : u # v => {u, v} \in DOMAIN G.edges
           /\ \A w \in G.nodes \ Q : \E u \in Q : {u, w} \notin DOMAIN G.edges

\* find_cliques has returned a clique of two nodes of which one, but not the
\* other, is adjacent to a third node.
C6_Witness ==
    /\ pc = "cliques_done"
    /\ \E k \in DOMAIN cliques :
          LET Q == cliques[k].nodes
          IN /\ Cardinality(Q) = 2
             /\ \E w \in G.nodes \ Q : \E u \in Q : {u, w} \in DOMAIN G.edges

\* Two fractions <<numerator, denominator>> of the same value.
SameFraction(a, b) == a[1] * b[2] = b[1] * a[2]

\* The number of edges of g with both ends in nodes, counted end by end.
EdgesAmong(g, nodes) ==
    Cardinality({p \in nodes \X nodes :
                   p[1] <= p[2] /\ {p[1], p[2]} \in DOMAIN g.edges})

\* C11: calculate_density(G, nodes) is the number of edges of G with both
\* ends in nodes over n*(n-1)/2 for n = |nodes| >= 2, and 1 for n < 2: one
\* node gives 1, two nodes without an edge 0 and a triangle 1.  This is so
\* for every set of nodes of a graph as build_graph returns it (the analyses
\* leave G as it is) and for the density recorded with each clique.
C11_Density ==
    /\ pc = "graph_built" => \A nodes \in SUBSET G.nodes :
          LET n == Cardinality(nodes)
              d == CalculateDensity(G, nodes)
          IN /\ n >= 2 => SameFraction(d, <<EdgesAmong(G, nodes), (n * (n - 1)) \div 2>>)
             /\ n < 2 => SameFraction(d, <<1, 1>>)
             /\ (n = 2 /\ EdgesAmong(G, nodes) = 0) => SameFraction(d, <<0, 1>>)
             /\ (n = 3 /\ \A u, v \in nodes : (u = v) # ({u, v} \in DOMAIN G.edges))
                   => SameFraction(d, <<1, 1>>)
    /\ \A k \in DOMAIN cliques :
          LET nodes == cliques[k].nodes
              n == Cardinality(nodes)
          IN SameFraction(cliques[k].density,
                          IF n < 2 THEN <<1, 1>>
                          ELSE <<EdgesAmong(G, nodes), (n * (n - 1)) \div 2>>)

\* find_cliques has recorded density 1 for a clique of one node and for a
\* clique of two, and the graph has two nodes that no edge joins.
C11_Witness ==
    /\ pc = "cliques_done"
    /\ \E j, k \in DOMAIN cliques :
          /\ cliques[j].size = 1 /\ cliques[j].density = <<1, 1>>
          /\ cliques[k].size = 2 /\ cliques[k].density = <<1, 1>>
    /\ \E nodes \in SUBSET G.nodes :
          Cardinality(nodes) = 2 /\ CalculateDensity(G, nodes) = <<0, 1>>

\* ----------------------------------------------------------------------
\* Properties of the triangulation pipeline: densities and candidates
\* ----------------------------------------------------------------------

\* Every analysis filed, whatever its list.
FiledAnalyses ==
    {e[2] : e \in Range(known_maternal_groups) \cup Range(known_paternal_groups)
                    \cup Range(unknown_father_groups) \cup Range(mixed_groups)}

\* The graph the triangulation edges form on the target matches.
TriGraph ==
    [nodes |-> DOMAIN target_matches,
     edges |-> [k \in {{e[1], e[2]} : e \in triangulation_edges} |-> 0]]

\* C12: the density analyze_group reports for a group is calculate_density
\* of the group's members over the graph of the triangulation edges, groups
\* of fewer than two members included.
C12_SameDensity ==
    \A a \in FiledAnalyses :
        SameFraction(a.density, CalculateDensity(TriGraph, Range(a.members)))

\* build_triangulation_groups has returned.
GroupsReturned == pc \in {"analyze", "done"}

\* C13: every member of every returned group has side paternal or both, a
\* cM between min_cm and max_cm, and a shared-match edge to another
\* candidate; and every triangulation edge joins two candidates and weighs
\* at least min_shared.
C13_CandidatesOnly ==
    GroupsReturned =>
        /\ \A k \in DOMAIN groups : \A m \in Range(groups[k]) :
              /\ dna_match[m].side \in {"paternal", "both"}
              /\ dna_match[m].cm >= min_cm
              /\ dna_match[m].cm <= max_cm
              /\ \E r \in shared_match :
                    /\ m \in {r[1], r[2]}
                    /\ \E n \in DOMAIN target_matches \ {m} : n \in {r[1], r[2]}
        /\ \A e \in triangulation_edges :
              /\ e[1] \in DOMAIN target_matches
              /\ e[2] \in DOMAIN target_matches
              /\ e[3] >= min_shared

\* The nodes of the triangulation graph, the ends of its edges, and its
\* connected components.
TriNodes == {e[1] : e \in triangulation_edges} \cup {e[2] : e \in triangulation_edges}

TriComponents == {ReachWithin({a}, TriNodes) : a \in TriNodes}

\* C14: build_triangulation_groups returns the connected components of the
\* triangulation graph that have at least min_group_size members, and no
\* others: every returned group has that size, and every such component is
\* returned once, each of its members listed once.
C14_ComponentsOfSize ==
    GroupsReturned =>
        /\ {Range(groups[k]) : k \in DOMAIN groups}
             = {c \in TriComponents : Cardinality(c) >= min_group_size}
        /\ \A k \in DOMAIN groups :
              /\ Len(groups[k]) >= min_group_size
              /\ Len(groups[k]) = Cardinality(Range(groups[k]))
        /\ \A j, k \in DOMAIN groups : j # k => Range(groups[j]) # Range(groups[k])

\* One component has been returned, of exactly min_group_size members, and
\* a smaller one discarded.
C14_Witness ==
    /\ pc = "done"
    /\ \E k \in DOMAIN groups : Len(groups[k]) = min_group_size
    /\ \E c \in TriComponents : Cardinality(c) < min_group_size

\* The run is on the data of scenario A.
ScenarioA ==
    /\ dna_match = ScenarioAMatches
    /\ shared_match \in ScenarioARows
    /\ min_group_size = 3

\* C15: on scenario A with min_cm 20 and min_group_size 3 (the two edges
\* pass min_shared at 15 as at 20) the triangulation graph has the edges
\* 1-2 and 1-3 only, and the one group returned, {1, 2, 3}, has size 3,
\* 2 internal edges and density 2/3.
C15_ScenarioA ==
    (ScenarioA /\ pc = "done") =>
        /\ {{e[1], e[2]} : e \in triangulation_edges} = {{1, 2}, {1, 3}}
        /\ Len(groups) = 1
        /\ Range(groups[1]) = {1, 2, 3}
        /\ \E a \in FiledAnalyses :
              /\ FiledAnalyses = {a}
              /\ a.size = 3
              /\ a.internal_edges = 2
              /\ SameFraction(a.density, <<2, 3>>)

\* ----------------------------------------------------------------------
\* Properties of find_cliques and of the orders of the results
\* ----------------------------------------------------------------------

\* C16: whatever the graph, min_size and max_cliques >= 0, the list
\* find_cliques returns has at most max_cliques entries, each of size at
\* least min_size.
C16_CapAndMinSize ==
    pc = "cliques_done" =>
        /\ Len(cliques) <= max_cliques
        /\ \A k \in DOMAIN cliques : cliques[k].size >= min_size

\* The sizes of a list of cliques never increase along the list.
SizeDescending(cs) ==
    \A j, k \in DOMAIN cs : j < k => cs[j].size >= cs[k].size

\* C17 as claimed: the list find_cliques returns is sorted by size, largest
\* first.
C17_ReturnedSorted ==
    pc = "cliques_done" => SizeDescending(cliques)

\* C17 amended: find_cliques returns the cliques in the order they were
\* enumerated; the list print_cliques shows holds the same cliques, at most
\* limit of them, sorted by size, largest first.
C17_ShownSorted ==
    pc = "main_done" =>
        /\ SizeDescending(cliques_sorted)
        /\ Len(cliques_sorted) = (IF Len(cliques) < limit THEN Len(cliques) ELSE limit)
        /\ Range(cliques_sorted) \subseteq Range(cliques)
        /\ Cardinality(Range(cliques_sorted)) = Len(cliques_sorted)

\* find_cliques returned a smaller clique before a larger one and
\* print_cliques has shown the larger first.
C17_Witness ==
    /\ pc = "main_done"
    /\ Len(cliques) >= 2
    /\ cliques[1].size < cliques[2].size
    /\ cliques_sorted[1].size > cliques_sorted[2].size

\* The smallest member of a set of ids.
MinOf(S) == CHOOSE x \in S : \A y \in S : x <= y

\* A list of sets of ids is by descending size, equal sizes by smallest
\* member.
BySizeThenSmallestId(parts) ==
    \A j, k \in DOMAIN parts :
        j < k => \/ Cardinality(parts[j]) > Cardinality(parts[k])
                 \/ /\ Cardinality(parts[j]) = Cardinality(parts[k])
                    /\ MinOf(parts[j]) < MinOf(parts[k])

\* C19 as claimed: the connected components come by descending size, those
\* of equal size by their smallest member id.
C19_SizeThenSmallestId ==
    /\ pc \in {"find_cliques", "cliques_for", "cliques_done", "main_done"} =>
          BySizeThenSmallestId(components_sorted)
    /\ pc = "matrix_done" =>
          BySizeThenSmallestId([k \in DOMAIN result |-> Range(result[k])])

\* Where x stands in a list that holds it once.
IndexIn(seq, x) == CHOOSE i \in DOMAIN seq : seq[i] = x

\* C19 amended: analyze_components lists the components by descending size,
\* those of equal size in the order nx.connected_components yielded them;
\* cluster_matches_by_shared returns the clusters by descending total cM,
\* those of equal total in the order they were found, the members of each by
\* descending cM.
C19_OrderedAsSorted ==
    /\ pc \in {"find_cliques", "cliques_for", "cliques_done", "main_done"} =>
          \A j, k \in DOMAIN components_sorted :
              j < k =>
                 LET a == components_sorted[j]
                     b == components_sorted[k]
                 IN \/ Cardinality(a) > Cardinality(b)
                    \/ /\ Cardinality(a) = Cardinality(b)
                       /\ IndexIn(components, a) < IndexIn(components, b)
    /\ pc = "matrix_done" =>
          /\ \A j, k \in DOMAIN result :
                j < k =>
                   LET a == result[j]
                       b == result[k]
                       Found(c) == CHOOSE i \in DOMAIN clusters :
                                       Range(clusters[i]) = Range(c)
                   IN \/ cluster_cm(a) > cluster_cm(b)
                      \/ cluster_cm(a) = cluster_cm(b) /\ Found(a) < Found(b)
          /\ \A k \in DOMAIN result : \A i, j \in DOMAIN result[k] :
                i < j => CmOrZero(result[k][i]) >= CmOrZero(result[k][j])

\* analyze_components has listed a component of two before one of one, or
\* two of equal size of which the one listed first has not the smaller id,
\* the list not being as nx.connected_components yielded it.
C19_Witness ==
    /\ pc = "main_done"
    /\ components # components_sorted
    /\ \E j, k \in DOMAIN components_sorted :
          /\ j < k
          /\ \/ Cardinality(components_sorted[j]) > Cardinality(components_sorted[k])
             \/ /\ Cardinality(components_sorted[j]) = Cardinality(components_sorted[k])
                /\ MinOf(components_sorted[j]) > MinOf(components_sorted[k])

\* The tables are those of Scenario C: 5 persons and no match.
ScenarioC == ancestry_person = ScenarioCNodes /\ ancestry_match = {}

\* The sets of a list, each counted once.
Listed(seq) == {seq[i] : i \in DOMAIN seq}

\* C20: on the graph of Scenario C (5 nodes, no edges) analyze_components
\* finds 5 components of one node each, and find_cliques with max_cliques >= 5
\* returns the 5 one-node cliques when min_size = 1 and no clique when
\* min_size >= 2.
C20_ScenarioC ==
    ScenarioC =>
       /\ pc \in {"find_cliques", "cliques_for", "cliques_done", "main_done"} =>
             /\ Len(components) = 5
             /\ Listed(components) = {{n} : n \in ScenarioCNodes}
             /\ Len(components_sorted) = 5
             /\ Listed(components_sorted) = {{n} : n \in ScenarioCNodes}
       /\ pc = "cliques_done" /\ max_cliques >= 5 =>
             IF min_size = 1
             THEN /\ Len(cliques) = 5
                  /\ Listed([i \in DOMAIN cliques |-> cliques[i].nodes])
                        = {{n} : n \in ScenarioCNodes}
                  /\ \A i \in DOMAIN cliques : cliques[i].size = 1
             ELSE cliques = <<>>

\* find_cliques has returned the 5 one-node cliques of Scenario C.
C20_Witness ==
    /\ ScenarioC
    /\ pc = "cliques_done"
    /\ min_size = 1
    /\ Len(cliques) = 5
    /\ Len(components) = 5

\* ----------------------------------------------------------------------
\* Properties of community detection (SpecComm)
\* ----------------------------------------------------------------------

\* G has nodes and no edge.
ZeroEdgeGraph == G.nodes # {} /\ DOMAIN G.edges = {}

\* The communities of a partition dict: the sets of nodes of one id.
CommunitiesOf(items) ==
    {{it[1] : it \in {x \in Range(items) : x[2] = c}} :
        c \in {it[2] : it \in Range(items)}}

\* Every node of G is listed as a community of its own, once.
AllSingletons(parts) ==
    /\ Len(parts) = Cardinality(G.nodes)
    /\ Listed(parts) = {{n} : n \in G.nodes}

\* C21 as claimed: on a graph with nodes and no edges community detection
\* returns every node as a singleton community, none omitted.
C21_ZeroEdgeSingletons ==
    /\ pc = "analyze_clusters" /\ ZeroEdgeGraph =>
          CommunitiesOf(partition) = {{n} : n \in G.nodes}
    /\ pc = "print_communities" /\ ZeroEdgeGraph =>
          AllSingletons([i \in DOMAIN communities |-> communities[i].nodes])

\* C21 amended: on a graph with nodes and no edges detect_communities
\* returns the empty partition, so that analyze_clusters has no result;
\* find_communities returns every node as a singleton community when
\* min_size <= 1 and no community otherwise.
C21_ZeroEdgeOutcome ==
    /\ pc = "analyze_clusters" /\ ZeroEdgeGraph => partition = <<>>
    /\ pc \in {"save_clusters_to_db", "save_for", "saved"} /\ ZeroEdgeGraph =>
          results = <<>>
    /\ pc = "print_communities" /\ ZeroEdgeGraph =>
          IF min_size <= 1
          THEN AllSingletons([i \in DOMAIN communities |-> communities[i].nodes])
          ELSE communities = <<>>

\* find_communities has returned the singletons of a graph of several nodes
\* and no edge.
C21_Witness ==
    /\ pc = "print_communities"
    /\ ZeroEdgeGraph
    /\ Cardinality(G.nodes) >= 2
    /\ min_size = 1
    /\ Len(communities) = Cardinality(G.nodes)

\* The sets of a list have no node in common.
PairwiseDisjoint(parts) ==
    \A i, j \in DOMAIN parts : i # j => parts[i] \cap parts[j] = {}

\* The communities find_communities returned are disjoint, of at least
\* min_size nodes, and carry their size and their density in G.
CommunitiesFilteredAndAnnotated ==
    /\ PairwiseDisjoint([i \in DOMAIN communities |-> communities[i].nodes])
    /\ \A i \in DOMAIN communities :
          LET c == communities[i]
              n == Cardinality(c.nodes)
          IN /\ c.nodes \subseteq G.nodes
             /\ n >= min_size
             /\ c.size = n
             /\ IF n < 2 THEN SameFraction(c.density, <<1, 1>>)
                ELSE SameFraction(c.density,
                                  <<EdgesAmong(G, c.nodes), (n * (n - 1)) \div 2>>)

\* analyze_clusters has returned.
ClustersAnalyzed ==
    pc \in {"save_clusters_to_db", "save_for", "saved", "interrupted"}

\* C22 as claimed: the communities that are output are pairwise disjoint,
\* have at least min_size members (cluster_matches.py has no such option;
\* the default of dna_clustering.py is taken for it), and carry their size
\* and their density.
C22_FilteredAndAnnotated ==
    /\ pc = "print_communities" => CommunitiesFilteredAndAnnotated
    /\ ClustersAnalyzed =>
          /\ PairwiseDisjoint([i \in DOMAIN results |-> Range(results[i].members)])
          /\ \A i \in DOMAIN results :
                /\ results[i].size >= min_size
                /\ results[i].size = Cardinality(Range(results[i].members))
                /\ "density" \in DOMAIN results[i]

\* C22 amended: find_communities returns disjoint communities of at least
\* min_size nodes with their size and density; analyze_clusters returns
\* every community of the partition, whatever its size, with its size and
\* without a density, and save_clusters_to_db writes a record for each.
C22_OutputOfEach ==
    /\ pc = "print_communities" => CommunitiesFilteredAndAnnotated
    /\ ClustersAnalyzed =>
          /\ PairwiseDisjoint([i \in DOMAIN results |-> Range(results[i].members)])
          /\ Len(results) = Cardinality(CommunitiesOf(partition))
          /\ Listed([i \in DOMAIN results |-> Range(results[i].members)])
                = CommunitiesOf(partition)
          /\ \A i \in DOMAIN results :
                /\ results[i].size = Cardinality(Range(results[i].members))
                /\ results[i].size = Len(results[i].members)
                /\ "density" \notin DOMAIN results[i]
    /\ pc = "saved" =>
          Cardinality(db.cluster) = Cardinality(EarlierClusters.cluster) + Len(results)

\* find_communities has dropped a node: of three nodes it has returned one
\* community of two.
C22_Witness ==
    /\ pc = "print_communities"
    /\ Cardinality(G.nodes) = 3
    /\ min_size = 2
    /\ Len(communities) = 1
    /\ communities[1].size = 2

\* C23: when the Louvain optimiser is not installed community detection
\* does not fail: no run ends with the ImportError.
C23_FallbackInsteadOfFailure == pc # "import_error"

\* The cluster records of tables that an earlier run has not left.
NewRecords(tables) == tables.cluster \ EarlierClusters.cluster

\* C26: save_clusters_to_db writes each result as one step.  While it runs a
\* member is tagged only with the id of a record already created; after the
\* commit every result has a record of its own and each of its members
\* carries the id of that record; before the commit, and when the run is
\* stopped before it, no record and no tag of the run is in the database.
C26_SavedAsOneStep ==
    /\ pc = "save_for" =>
          \A m \in Ids :
              conn.cluster_id[m] # EarlierClusters.cluster_id[m] =>
                  \E c \in NewRecords(conn) : c.id = conn.cluster_id[m]
    /\ pc = "saved" =>
          /\ Cardinality(NewRecords(db)) = Len(results)
          /\ \A c1, c2 \in db.cluster : c1.id = c2.id => c1 = c2
          /\ \A i \in DOMAIN results :
                \E c \in NewRecords(db) :
                    /\ c.description = <<results[i].cluster_id, results[i].size,
                                         results[i].dominant_side>>
                    /\ \A k \in DOMAIN results[i].members :
                          db.cluster_id[results[i].members[k]] = c.id
    /\ pc \in {"save_for", "interrupted"} => db = EarlierClusters

\* A save of two results has been committed.
C26_Witness ==
    /\ pc = "saved"
    /\ Len(results) >= 2
    /\ \E i \in DOMAIN results : results[i].size >= 2
    /\ Cardinality(NewRecords(db)) = 2

\* C27: the dominant side of a cluster is a side carried by more of its
\* members than any other side, it is 'unknown' when no member has side
\* data, and it is the same in whatever order the members are listed.
C27_MajorityVote ==
    ClustersAnalyzed =>
       \A i \in DOMAIN results :
          LET members == results[i].members
              dominant == results[i].dominant_side
          IN /\ \A k \in DOMAIN members :
                    dna_match[members[k]].side # dominant =>
                       SideCount(members, dominant)
                          > SideCount(members, dna_match[members[k]].side)
             /\ (\A k \in DOMAIN members : dna_match[members[k]].side = "unknown")
                    => dominant = "unknown"
             /\ \A listed \in Orders(Range(members)) :
                    DominantSide(listed) = dominant

\* ----------------------------------------------------------------------
\* Properties of the migration (SpecMigrate)
\* ----------------------------------------------------------------------

\* The rows of shared_match the migration turns into the edge between the
\* test-taker and the match of SQLite row id.
ImportedForChrisAnd(id) ==
    {r \in shared_match :
        /\ r[1] \in DOMAIN id_to_ancestry
        /\ Ancestry2(r) # NullInt
        /\ SortedPair(id_to_ancestry[r[1]], Ancestry2(r))
             = SortedPair(CHRIS_ANCESTRY_ID, dna_match[id].ancestry_id)}

\* C28: after the steps 1 to 7, every edge between the test-taker and a match
\* whose dna_match row has a shared_cm weighs exactly that shared_cm; and at
\* every moment every row of ancestry_match has person1_id <= person2_id and
\* no two rows are of the same pair.
C28_ChrisEdgesCorrected ==
    /\ pc = "verify_migration" =>
          \A r \in ancestry_match, id \in WithAncestryId :
              (/\ dna_match[id].ancestry_id # CHRIS_ANCESTRY_ID
               /\ dna_match[id].cm # NullInt
               /\ <<r[1], r[2]>> = SortedPair(CHRIS_ANCESTRY_ID,
                                              dna_match[id].ancestry_id))
              => r[3] = dna_match[id].cm
    /\ \A r \in ancestry_match : r[1] <= r[2]
    /\ \A r1, r2 \in ancestry_match :
          {r1[1], r1[2]} = {r2[1], r2[2]} => r1 = r2

\* The migration is over; the edge between the test-taker and the match of
\* row 1 weighs the 50 cM of dna_match though shared_match had a row of the
\* pair at 70 cM, or one at 25 cM.
C28_Witness ==
    /\ pc = "verify_migration"
    /\ dna_match[1].cm = 50
    /\ <<AncestryIdOf(1), CHRIS_ANCESTRY_ID, 50>> \in ancestry_match
    /\ \E larger, smaller \in ImportedForChrisAnd(1) :
          larger[3] = 70 /\ smaller[3] = 25

\* ----------------------------------------------------------------------
\* Properties of find_unknown_father_matches.py: configuration, counts and grouping
\* ----------------------------------------------------------------------

\* C25: a configuration with a negative min_group_size is rejected before
\* the candidates are selected: the run never gets past its start.
C25_InvalidConfigRejected ==
    min_group_size < 0 => pc = "get_triangulation_data"

\* The unordered pairs of members of a group that a triangulation edge
\* joins, a pair recorded as A-B and as B-A being one pair.
JoinedPairs(members) ==
    {{e[1], e[2]} : e \in {t \in triangulation_edges :
                              /\ t[1] \in members
                              /\ t[2] \in members
                              /\ t[1] # t[2]}}

\* C29: the internal edge count reported for a group is the number of
\* distinct unordered pairs of its members joined by a triangulation edge,
\* and the reported density lies between 0 and 1.
C29_PairsCountedOnce ==
    \A a \in FiledAnalyses :
        /\ a.internal_edges = Cardinality(JoinedPairs(Range(a.members)))
        /\ a.density[1] >= 0
        /\ a.density[1] <= a.density[2]

\* No element of the list seq comes twice.
NoRepeat(seq) == \A i, j \in DOMAIN seq : i # j => seq[i] # seq[j]

\* No two lists of the list of lists share an element.
Apart(lists) ==
    \A i, j \in DOMAIN lists : i # j => Range(lists[i]) \cap Range(lists[j]) = {}

\* Neither grouping has a match twice in a group or in two groups, the group
\* under construction included.
NoMatchTwice ==
    /\ NoRepeat(component)
    /\ \A k \in DOMAIN groups : NoRepeat(groups[k])
    /\ Apart(groups)
    /\ pc = "bfs" => \A k \in DOMAIN groups : Range(groups[k]) \cap Range(component) = {}
    /\ NoRepeat(cluster)
    /\ \A k \in DOMAIN clusters : NoRepeat(clusters[k])
    /\ Apart(clusters)
    /\ pc = "cluster_bfs" =>
          \A k \in DOMAIN clusters : Range(clusters[k]) \cap Range(cluster) = {}
    /\ \A k \in DOMAIN result : NoRepeat(result[k])
    /\ Apart(result)

\* The grouping has returned, or there was nothing to group.
GroupingReturned == pc \in {"analyze", "done", "matrix_done", "main_done"}

\* C30: the breadth-first grouping never has a match twice in one group or in
\* two groups, and it terminates: under SpecGrouping every run reaches the
\* return of the grouping.
C30_TerminatesWithoutDuplicates == []NoMatchTwice /\ <>GroupingReturned

\* A node waits in the queue twice, before its first visit, while a group is
\* being built.
C30_Witness ==
    /\ pc \in {"bfs", "cluster_bfs"}
    /\ \E i, j \in DOMAIN queue :
          i # j /\ queue[i] = queue[j] /\ queue[i] \notin visited

====
